---- MODULE Spec2Model ----
(***************************************************************************)
(* Session lifecycle of axiomtrade-rs: the two-step login of AuthClient,   *)
(* OTP retrieval through OtpFetcher, the TokenManager store with its token *)
(* file, token refresh and the authenticated-request primitive.            *)
(*                                                                         *)
(* One AuthClient is modelled.  Its methods take &mut self, so one call    *)
(* runs at a time; a call is a sequence of steps, one per awaited network  *)
(* or mailbox round trip, and pc is the position of the running call.      *)
(* Wall-clock time (chrono::Utc::now) is counted in minutes.               *)
(***************************************************************************)
EXTENDS Integers, Sequences, FiniteSets, TLC

VARIABLES
    tokens,             \* TokenManager.tokens: Option<AuthTokens>
    file,               \* the token file at TokenManager.storage_path
    now,                \* chrono::Utc::now(), minutes
    last_used_endpoint, \* AuthClient.last_used_endpoint: Option<String>
    otp_fetcher,        \* AuthClient.otp_fetcher is Some
    mailbox,            \* the IMAP inbox: sequence of OTP messages
    pc,                 \* position of the running call, "idle" when none
    frame,              \* arguments and locals of the running (or last) call
    sent,               \* HTTP requests sent by the running (or last) call
    result,             \* value returned by the last finished call
    task_pc,            \* position of each concurrent task
    task_local,         \* arguments and locals of each concurrent task
    clock,              \* std::time::Instant::now(), ticks
    requests,           \* RateLimiter.requests: VecDeque<Instant>
    released,           \* instants at which wait_if_needed returned
    session,            \* SessionManager.session: Option<AuthSession>
    lock,               \* state of the tokio RwLock around the shared object
    workers,            \* worker threads of the tokio runtime
    session_file,       \* the session file of the SessionManager
    bucket,             \* the BucketRateLimiter: its level, time since last_refill
    peer_last_used_endpoint \* last_used_endpoint of a second AuthClient

\* The state of the components other than the one AuthClient
ext_vars == <<task_pc, task_local, clock, requests, released, session, lock,
              workers, session_file, bucket, peer_last_used_endpoint>>

vars == <<tokens, file, now, last_used_endpoint, otp_fetcher, mailbox,
          pc, frame, sent, result, task_pc, task_local, clock, requests,
          released, session, lock, workers, session_file, bucket, peer_last_used_endpoint>>

----------------------------------------------------------------------------
(* Bounds of the model *)

MaxTime == 60
MaxMessages == 1

TickSteps == {55}

----------------------------------------------------------------------------
(* Option<T> *)

None == <<>>
Some(x) == <<x>>
IsSome(o) == o /= <<>>
Unwrap(o) == o[1]

\* Variant of OptionOr: the second value wins when both are present
OptionOr_second_first(a, b) == IF IsSome(b) THEN b ELSE a

\* Option::or, as used for the step-2 tokens
OptionOr(a, b) == IF IsSome(a) THEN a ELSE b

Min(a, b) == IF a <= b THEN a ELSE b

----------------------------------------------------------------------------
(* Program constants *)

API_ENDPOINTS == {"api2", "api3", "api6", "api7", "api8", "api9", "api10"}

LOGIN_TTL == 60          \* chrono::Duration::hours(1) at login step 2
REFRESH_TTL == 15        \* chrono::Duration::minutes(15) in refresh_tokens
RETRY_TTL == 60          \* chrono::Duration::hours(1) in the 401 path
EXPIRED_BUFFER == 5      \* chrono::Duration::minutes(5) in is_expired
OTP_TIMEOUT == 120       \* wait_for_otp(120, 5), seconds
OTP_INTERVAL == 5

----------------------------------------------------------------------------
(* Values the environment can produce *)

AccessValues == {"a1", "a2"}
RefreshValues == {"r1", "r2"}
Challenges == {"j1", "j2"}
ManualCodes == {"000000"}
MailCodes == {"111111"}

Opt(S) == {None} \cup {Some(x) : x \in S}

AuthTokens(access, refresh, expires_at) ==
    [access_token |-> access, refresh_token |-> refresh, expires_at |-> expires_at]

\* Token files that can exist before the client is constructed
InitTokens ==
    {AuthTokens("a1", "r1", e) : e \in {None, Some(0), Some(60)}}

FileAbsent == [state |-> "absent", content |-> None]
FileCorrupt == [state |-> "corrupt", content |-> None]
FileOf(t) == [state |-> "tokens", content |-> Some(t)]

\* Responses of the server.  A response that is not a success carries
\* nothing the client reads.  In a step-2 response the cookies and the JSON
\* body carry different values, so that the source of a stored token shows.
Step1Responses ==
    [status : {"non_success", "transport_error", "bad_body"}, otp_jwt_token : {""}]
    \cup [status : {"ok"}, otp_jwt_token : Challenges]

Step2Responses ==
    [status : {"non_success", "transport_error", "bad_body"},
     cookie_access : {None}, cookie_refresh : {None},
     body_access : {None}, body_refresh : {None}]
    \cup [status : {"ok"},
          cookie_access : Opt({"a1"}), cookie_refresh : Opt({"r1"}),
          body_access : Opt({"a2"}), body_refresh : Opt({"r2"})]

RefreshResponses ==
    [status : {"non_success", "transport_error"}, cookie_access : {None}]
    \cup [status : {"ok"}, cookie_access : Opt(AccessValues)]

\* 0 stands for a transport error (no response)
RequestStatuses == {0, 200, 401, 429, 500}

\* Outcomes of fs::write in save_to_file
WriteOutcomes == {"ok", "fail_unchanged", "fail_truncated"}

----------------------------------------------------------------------------
(* Results and call frames *)

Ok(opname, toks, status) ==
    [op |-> opname, ok |-> TRUE, err |-> "", msg |-> "", tokens |-> toks, status |-> status]
Err(opname, e, m) ==
    [op |-> opname, ok |-> FALSE, err |-> e, msg |-> m, tokens |-> None, status |-> 0]
NoResult ==
    [op |-> "", ok |-> FALSE, err |-> "", msg |-> "", tokens |-> None, status |-> 0]

\* Besides the arguments and locals of the call, a frame records how the call
\* found the store (found), whether the call has changed the stored tokens or
\* the token file (store_changed), the number of calls of wait_for_otp and
\* what the last of them returned
StoreFound ==
    IF ~IsSome(tokens) THEN "none"
    ELSE IF IsSome(Unwrap(tokens).expires_at)
            /\ now + EXPIRED_BUFFER >= Unwrap(Unwrap(tokens).expires_at)
         THEN "expired"
         ELSE "valid"

NewFrame(opname) ==
    [name |-> opname, otp_code |-> None, otp_jwt_token |-> None, otp |-> None,
     tokens |-> None, new_access_token |-> None, elapsed |-> 0,
     wait_calls |-> 0, wait_outcome |-> "",
     found |-> StoreFound, store_changed |-> FALSE]

\* The locals of a call end with it; its arguments and counters stay readable
Returned(f) ==
    [f EXCEPT !.otp_jwt_token = None, !.tokens = None, !.new_access_token = None,
              !.elapsed = 0]

\* A request as sent, with the response it got
Request(kind, cookie, code, resp) ==
    [kind |-> kind, cookie |-> cookie, code |-> code, resp |-> resp]

CountKind(s, kind) == Cardinality({i \in 1..Len(s) : s[i].kind = kind})

----------------------------------------------------------------------------
(* AuthTokens and TokenManager *)

\* AuthTokens::is_expired
is_expired(t, n) ==
    IF IsSome(t.expires_at) THEN n >= Unwrap(t.expires_at) - EXPIRED_BUFFER ELSE FALSE

\* TokenManager::load_from_file_sync(...).ok()
load_from_file_sync(f) == IF f.state = "tokens" THEN f.content ELSE None

\* Variant of save_to_file: nothing is written
save_to_file_skipped(f, t, w) == IF w = "fail_truncated" THEN FileCorrupt ELSE f

\* TokenManager::save_to_file: the file after fs::write with outcome w
save_to_file(f, t, w) ==
    CASE w = "ok" -> FileOf(t)
      [] w = "fail_unchanged" -> f
      [] w = "fail_truncated" -> FileCorrupt

\* TokenManager::set_tokens: memory first, then the file; the error it returns
set_tokens_error(w) == IF w = "ok" THEN "" ELSE "IoError"

set_tokens(t, w) ==
    /\ tokens' = Some(t)
    /\ file' = save_to_file(file, t, w)

\* TokenManager::get_tokens
get_tokens == tokens

----------------------------------------------------------------------------
(* Endpoint rotation *)

\* Variant of available_endpoints: the last used host stays eligible
available_endpoints_unfiltered(last) == API_ENDPOINTS

available_endpoints(last) ==
    IF IsSome(last) THEN API_ENDPOINTS \ {Unwrap(last)} ELSE API_ENDPOINTS

get_random_endpoint ==
    \E endpoint \in available_endpoints(last_used_endpoint) :
        last_used_endpoint' = Some(endpoint)

----------------------------------------------------------------------------
(* Error mapping of the login steps, the refresh and the OTP resolution *)

\* Variant of login_step1_error: the status of the response is not checked
login_step1_error_unchecked(status) ==
    IF status \in {"ok", "non_success"} THEN "" ELSE "NetworkError"

\* login_step1: "" when the step yields the challenge
login_step1_error(status) ==
    CASE status = "ok" -> ""
      [] status = "non_success" -> "InvalidCredentials"
      [] status = "transport_error" -> "NetworkError"
      [] status = "bad_body" -> "NetworkError"

\* login_step2_full: cookie first, JSON body as fallback
step2_access(resp) == OptionOr(resp.cookie_access, resp.body_access)
step2_refresh(resp) == OptionOr(resp.cookie_refresh, resp.body_refresh)

\* login_step2_full up to the construction of the tokens: "" when it yields them
login_step2_error(resp) ==
    CASE resp.status = "transport_error" -> "NetworkError"
      [] resp.status = "non_success" -> "InvalidOtp"
      [] resp.status = "bad_body" -> "NetworkError"
      [] OTHER -> IF ~IsSome(step2_access(resp)) THEN "TokenNotFound"
                  ELSE IF ~IsSome(step2_refresh(resp)) THEN "TokenNotFound"
                  ELSE ""

login_expires_at(n) == Some(n + LOGIN_TTL)

\* AuthClient::refresh_token: "" when it yields the new access token
refresh_token_error(resp) ==
    CASE resp.status = "transport_error" -> "NetworkError"
      [] resp.status = "non_success" -> "TokenExpired"
      [] OTHER -> IF IsSome(resp.cookie_access) THEN "" ELSE "TokenNotFound"

refresh_expires_at(n) == Some(n + REFRESH_TTL)
retry_expires_at(n) == Some(n + RETRY_TTL)

\* Variant of ensure_map_err: the error of refresh_tokens is passed on
ensure_map_err_passed_on(e) == e

\* ensure_valid_authentication: Err(_) => Err(AuthError::TokenExpired)
ensure_map_err(e) == "TokenExpired"

\* The error a failed refresh_tokens surfaces from the running call
refresh_tokens_surface(opname, e) ==
    IF opname = "ensure_valid_authentication" THEN ensure_map_err(e) ELSE e

\* make_authenticated_request: what follows the first response
after_first_response(status) ==
    CASE status = 0 -> "NetworkError"
      [] status = 401 -> "refresh"
      [] OTHER -> "return"

\* Variant of retry_cookie: the request is re-sent with the token it had
retry_cookie_stale(old_access_token, new_access_token) == old_access_token

\* make_authenticated_request: the access token of the re-sent request
retry_cookie(old_access_token, new_access_token) == new_access_token

\* Variant of otp_source: a configured fetcher is asked first
otp_source_fetcher_first(otp_code, fetcher) ==
    IF fetcher THEN "wait_for_otp"
    ELSE IF IsSome(otp_code) THEN "supplied" ELSE "OtpRequired"

\* login_full: where the OTP comes from
otp_source(otp_code, fetcher) ==
    IF IsSome(otp_code) THEN "supplied"
    ELSE IF fetcher THEN "wait_for_otp" ELSE "OtpRequired"

\* fetch_otp: the error for a wait_for_otp that returned Ok(None)
fetch_otp_none_error == "EmailError"

----------------------------------------------------------------------------
(* OtpFetcher *)

Message(code) == [code |-> code, seen |-> FALSE]

Unseen(mb) == {i \in 1..Len(mb) : ~mb[i].seen}

latest_id(mb) == CHOOSE i \in Unseen(mb) : \A j \in Unseen(mb) : j <= i

\* Variant of FlagSeen: the flag is not stored
FlagSeen_skipped(mb, i) == mb

\* session.store(id, "+FLAGS (\\Seen)")
FlagSeen(mb, i) == [mb EXCEPT ![i].seen = TRUE]

\* OtpFetcher::fetchotp_recent with IMAP outcome imap; a message whose code
\* field is "" carries no extractable code in subject or body
fetchotp_recent(mb, imap) ==
    IF imap = "fail_connect" THEN [ok |-> FALSE, value |-> None, mailbox |-> mb]
    ELSE IF Unseen(mb) = {} THEN [ok |-> TRUE, value |-> None, mailbox |-> mb]
    ELSE LET id == latest_id(mb)
             flagged == FlagSeen(mb, id)
         IN IF imap = "fail_logout"
            THEN [ok |-> FALSE, value |-> None, mailbox |-> flagged]
            ELSE [ok |-> TRUE,
                  value |-> IF mb[id].code = "" THEN None ELSE Some(mb[id].code),
                  mailbox |-> flagged]

\* One iteration of wait_for_otp takes at least the check interval
IterationTimes == {12 * OTP_INTERVAL, 24 * OTP_INTERVAL}

----------------------------------------------------------------------------
(* Components a specification leaves out stay as constructed *)

\* tokio::sync::RwLock: no guard handed out
Unlocked == [writer |-> None, readers |-> {}]

\* No task spawned
NoTasks == task_pc = <<>> /\ task_local = <<>>

\* RateLimiter::new: no request recorded
NoLimiter == clock = 0 /\ requests = <<>> /\ released = <<>> /\ bucket = None

\* SessionManager::new without a storage path
NoSessionManager == session = None /\ lock = Unlocked /\ session_file = FileAbsent

\* No runtime started
NoExecutor == workers = 0

\* No second AuthClient
NoPeer == peer_last_used_endpoint = None

----------------------------------------------------------------------------
(* Initial state: AuthClient::new_with_user_agent *)

InitLogin ==
    /\ file \in {FileAbsent, FileCorrupt} \cup {FileOf(t) : t \in InitTokens}
    /\ tokens = load_from_file_sync(file)
    /\ now = 0
    /\ last_used_endpoint = None
    /\ otp_fetcher \in BOOLEAN
    /\ mailbox = <<>>
    /\ pc = "idle"
    /\ frame = NewFrame("")
    /\ sent = <<>>
    /\ result = NoResult
    /\ NoTasks /\ NoLimiter /\ NoSessionManager /\ NoExecutor /\ NoPeer

\* The running call returns r; f is its frame at that point
Finish(r, f) == pc' = "idle" /\ result' = r /\ frame' = Returned(f)

\* The running call goes on at position p with frame f
Continue(p, f) == pc' = p /\ frame' = f /\ UNCHANGED result

StoreChanged == tokens' /= tokens \/ file' /= file

\* A call starts: only an idle client takes one
Begin ==
    /\ pc = "idle"
    /\ sent' = <<>>
    /\ result' = NoResult
    /\ UNCHANGED <<tokens, file, now, last_used_endpoint, otp_fetcher, mailbox>>
    /\ UNCHANGED ext_vars

----------------------------------------------------------------------------
(* Login: login_full (login, login_with_hash and login_with_hash_full run   *)
(* the same steps)                                                          *)

login_full ==
    /\ Begin
    /\ \E otp_code \in Opt(ManualCodes) :
           frame' = [NewFrame("login_full") EXCEPT !.otp_code = otp_code]
    /\ pc' = "login_step1"

login_step1 ==
    /\ pc = "login_step1"
    /\ get_random_endpoint
    /\ \E resp \in Step1Responses :
        /\ sent' = Append(sent, Request("login-password-v2", "", "", resp))
        /\ IF login_step1_error(resp.status) = ""
           THEN Continue("resolve_otp",
                         [frame EXCEPT !.otp_jwt_token = Some(resp.otp_jwt_token)])
           ELSE Finish(Err(frame.name, login_step1_error(resp.status), ""), frame)
    /\ UNCHANGED <<tokens, file, now, otp_fetcher, mailbox>>
    /\ UNCHANGED ext_vars

\* match otp_code { Some(code) => code, None => self.fetch_otp().await? }
resolve_otp ==
    /\ pc = "resolve_otp"
    /\ LET source == otp_source(frame.otp_code, otp_fetcher)
       IN CASE source = "supplied" ->
                   Continue("login_step2", [frame EXCEPT !.otp = frame.otp_code])
            [] source = "wait_for_otp" ->
                   Continue("wait_for_otp",
                            [frame EXCEPT !.elapsed = 0,
                                          !.wait_calls = frame.wait_calls + 1])
            [] OTHER ->
                   Finish(Err(frame.name, source, ""), frame)
    /\ UNCHANGED <<tokens, file, now, last_used_endpoint, otp_fetcher, mailbox, sent>>
    /\ UNCHANGED ext_vars

\* One iteration of the loop of wait_for_otp, called by fetch_otp
wait_for_otp_poll ==
    /\ pc = "wait_for_otp"
    /\ frame.elapsed < OTP_TIMEOUT
    /\ \E imap \in {"ok", "fail_connect", "fail_logout"}, d \in IterationTimes :
           LET r == fetchotp_recent(mailbox, imap)
           IN /\ mailbox' = r.mailbox
              /\ IF ~r.ok
                 THEN Finish(Err(frame.name, "EmailError", "mailbox"),
                             [frame EXCEPT !.wait_outcome = "error"])
                 ELSE IF IsSome(r.value)
                 THEN Continue("login_step2",
                               [frame EXCEPT !.otp = r.value, !.elapsed = 0,
                                             !.wait_outcome = "found"])
                 ELSE Continue("wait_for_otp",
                               [frame EXCEPT
                                  !.elapsed = Min(frame.elapsed + d, OTP_TIMEOUT)])
    /\ UNCHANGED <<tokens, file, now, last_used_endpoint, otp_fetcher, sent>>
    /\ UNCHANGED ext_vars

\* The loop ends on the timeout: wait_for_otp returns Ok(None) and fetch_otp
\* turns it into an error
wait_for_otp_timeout ==
    /\ pc = "wait_for_otp"
    /\ frame.elapsed >= OTP_TIMEOUT
    /\ Finish(Err(frame.name, fetch_otp_none_error, "OTP not received within timeout"),
              [frame EXCEPT !.wait_outcome = "timeout"])
    /\ UNCHANGED <<tokens, file, now, last_used_endpoint, otp_fetcher, mailbox, sent>>
    /\ UNCHANGED ext_vars

login_step2_full ==
    /\ pc = "login_step2"
    /\ get_random_endpoint
    /\ \E resp \in Step2Responses, w \in WriteOutcomes :
        /\ sent' = Append(sent, Request("login-otp", Unwrap(frame.otp_jwt_token),
                                        Unwrap(frame.otp), resp))
        /\ IF login_step2_error(resp) /= ""
           THEN /\ UNCHANGED <<tokens, file>>
                /\ Finish(Err(frame.name, login_step2_error(resp), ""), frame)
           ELSE LET t == AuthTokens(Unwrap(step2_access(resp)),
                                    Unwrap(step2_refresh(resp)),
                                    login_expires_at(now))
                IN /\ set_tokens(t, w)
                   /\ Finish(IF set_tokens_error(w) = ""
                             THEN Ok(frame.name, Some(t), 0)
                             ELSE Err(frame.name, set_tokens_error(w), ""),
                             [frame EXCEPT !.store_changed = StoreChanged])
    /\ UNCHANGED <<now, otp_fetcher, mailbox>>
    /\ UNCHANGED ext_vars

----------------------------------------------------------------------------
(* Refresh: refresh_tokens and ensure_valid_authentication *)

refresh_tokens ==
    /\ Begin
    /\ IF IsSome(get_tokens)
       THEN /\ frame' = [NewFrame("refresh_tokens") EXCEPT !.tokens = get_tokens]
            /\ pc' = "refresh_tokens"
       ELSE /\ frame' = NewFrame("refresh_tokens")
            /\ pc' = "no_tokens"

\* ensure_valid_authentication up to its call of refresh_tokens
ensure_branch(stored, n) ==
    IF ~IsSome(stored) THEN "no_tokens"
    ELSE IF ~is_expired(Unwrap(stored), n) THEN "valid"
    ELSE "refresh_tokens"

ensure_valid_authentication ==
    /\ Begin
    /\ frame' = [NewFrame("ensure_valid_authentication") EXCEPT !.tokens = get_tokens]
    /\ pc' = ensure_branch(get_tokens, now)

\* The error of a call that found no stored tokens
no_tokens_error(opname) ==
    IF opname = "ensure_valid_authentication" THEN "NotAuthenticated" ELSE "TokenNotFound"

\* The early returns of the calls that found no tokens, or valid ones
return_early ==
    /\ pc \in {"no_tokens", "valid"}
    /\ IF pc = "valid"
       THEN Finish(Ok(frame.name, frame.tokens, 0), frame)
       ELSE Finish(Err(frame.name, no_tokens_error(frame.name), ""), frame)
    /\ UNCHANGED <<tokens, file, now, last_used_endpoint, otp_fetcher, mailbox, sent>>
    /\ UNCHANGED ext_vars

\* refresh_tokens from its call of refresh_token on
refresh_tokens_request ==
    /\ pc = "refresh_tokens"
    /\ get_random_endpoint
    /\ \E resp \in RefreshResponses, w \in WriteOutcomes :
        /\ sent' = Append(sent, Request("refresh-access-token",
                                        Unwrap(frame.tokens).refresh_token, "", resp))
        /\ IF refresh_token_error(resp) /= ""
           THEN /\ UNCHANGED <<tokens, file>>
                /\ Finish(Err(frame.name,
                              refresh_tokens_surface(frame.name, refresh_token_error(resp)),
                              ""), frame)
           ELSE LET new_tokens == AuthTokens(Unwrap(resp.cookie_access),
                                             Unwrap(frame.tokens).refresh_token,
                                             refresh_expires_at(now))
                IN /\ set_tokens(new_tokens, w)
                   /\ Finish(IF set_tokens_error(w) = ""
                             THEN Ok(frame.name, Some(new_tokens), 0)
                             ELSE Err(frame.name,
                                      refresh_tokens_surface(frame.name, set_tokens_error(w)),
                                      ""),
                             [frame EXCEPT !.store_changed = StoreChanged])
    /\ UNCHANGED <<now, otp_fetcher, mailbox>>
    /\ UNCHANGED ext_vars

----------------------------------------------------------------------------
(* make_authenticated_request *)

make_authenticated_request ==
    /\ Begin
    /\ IF IsSome(get_tokens)
       THEN /\ frame' = [NewFrame("make_authenticated_request") EXCEPT !.tokens = get_tokens]
            /\ pc' = "request"
       ELSE /\ frame' = NewFrame("make_authenticated_request")
            /\ pc' = "no_tokens"

request_send ==
    /\ pc = "request"
    /\ \E status \in RequestStatuses :
        /\ sent' = Append(sent, Request("request", Unwrap(frame.tokens).access_token,
                                        "", [status |-> status]))
        /\ LET next == after_first_response(status)
           IN CASE next = "refresh" -> Continue("request_refresh", frame)
                [] next = "return" -> Finish(Ok(frame.name, None, status), frame)
                [] OTHER -> Finish(Err(frame.name, next, ""), frame)
    /\ UNCHANGED <<tokens, file, now, last_used_endpoint, otp_fetcher, mailbox>>
    /\ UNCHANGED ext_vars

\* The refresh after a 401: refresh_token, then set_tokens
request_refresh ==
    /\ pc = "request_refresh"
    /\ get_random_endpoint
    /\ \E resp \in RefreshResponses, w \in WriteOutcomes :
        /\ sent' = Append(sent, Request("refresh-access-token",
                                        Unwrap(frame.tokens).refresh_token, "", resp))
        /\ IF refresh_token_error(resp) /= ""
           THEN /\ UNCHANGED <<tokens, file>>
                /\ Finish(Err(frame.name, refresh_token_error(resp), ""), frame)
           ELSE LET new_tokens == AuthTokens(Unwrap(resp.cookie_access),
                                             Unwrap(frame.tokens).refresh_token,
                                             retry_expires_at(now))
                IN /\ set_tokens(new_tokens, w)
                   /\ IF set_tokens_error(w) = ""
                      THEN Continue("request_retry",
                                    [frame EXCEPT !.new_access_token = resp.cookie_access,
                                                  !.store_changed = StoreChanged])
                      ELSE Finish(Err(frame.name, set_tokens_error(w), ""),
                                  [frame EXCEPT !.store_changed = StoreChanged])
    /\ UNCHANGED <<now, otp_fetcher, mailbox>>
    /\ UNCHANGED ext_vars

\* The re-sent request; its response is returned whatever its status
request_retry ==
    /\ pc = "request_retry"
    /\ \E status \in RequestStatuses :
        /\ sent' = Append(sent, Request("request",
                                        retry_cookie(Unwrap(frame.tokens).access_token,
                                                     Unwrap(frame.new_access_token)),
                                        "", [status |-> status]))
        /\ IF status = 0
           THEN Finish(Err(frame.name, "NetworkError", ""), frame)
           ELSE Finish(Ok(frame.name, None, status), frame)
    /\ UNCHANGED <<tokens, file, now, last_used_endpoint, otp_fetcher, mailbox>>
    /\ UNCHANGED ext_vars

----------------------------------------------------------------------------
(* get_current_endpoint, and the environment *)

get_current_endpoint ==
    /\ pc = "idle"
    /\ get_random_endpoint
    /\ UNCHANGED <<tokens, file, now, otp_fetcher, mailbox, pc, frame, sent, result>>
    /\ UNCHANGED ext_vars

\* An OTP mail arrives
deliver_mail ==
    /\ Len(mailbox) < MaxMessages
    /\ \E code \in MailCodes \cup {""} : mailbox' = Append(mailbox, Message(code))
    /\ UNCHANGED <<tokens, file, now, last_used_endpoint, otp_fetcher, pc, frame,
                   sent, result>>
    /\ UNCHANGED ext_vars

\* Time passes
Tick ==
    /\ \E d \in TickSteps : now + d <= MaxTime /\ now' = now + d
    /\ UNCHANGED <<tokens, file, last_used_endpoint, otp_fetcher, mailbox, pc,
                   frame, sent, result>>
    /\ UNCHANGED ext_vars

\* AuthClient constructed without mailbox credentials in the environment
InitSession ==
    /\ InitLogin
    /\ otp_fetcher = FALSE

\* The login protocol with its OTP retrieval.  A login reads the clock once,
\* for expires_at; the clock is not advanced here.
NextLogin ==
    \/ login_full
    \/ login_step1
    \/ resolve_otp
    \/ wait_for_otp_poll
    \/ wait_for_otp_timeout
    \/ login_step2_full
    \/ deliver_mail

SpecLogin == InitLogin /\ [][NextLogin]_vars

\* The session of a client that logs in with caller-supplied codes: refresh,
\* authenticated requests and endpoint selection
NextSession ==
    \/ login_full
    \/ login_step1
    \/ resolve_otp
    \/ login_step2_full
    \/ refresh_tokens
    \/ ensure_valid_authentication
    \/ return_early
    \/ refresh_tokens_request
    \/ make_authenticated_request
    \/ request_send
    \/ request_refresh
    \/ request_retry
    \/ get_current_endpoint
    \/ Tick

SpecSession == InitSession /\ [][NextSession]_vars

----------------------------------------------------------------------------
(* Properties of make_authenticated_request, refresh_tokens and              *)
(* ensure_valid_authentication, checked under SpecSession                    *)

RefreshYieldedToken(entry) ==
    entry.resp.status = "ok" /\ IsSome(entry.resp.cookie_access)

\* C1: a call of make_authenticated_request sends at most one refresh request
\* and the original request at most twice.  A 401 on the first send triggers
\* exactly one refresh; when the refresh (the refresh request and the storing
\* of the new tokens) succeeds the request is re-sent exactly once with the
\* new access token; a 401 on the re-sent request is returned to the caller.
C1_OneRefreshOneResend ==
    frame.name = "make_authenticated_request" =>
        LET n == Len(sent)
            first401 == n >= 1 /\ sent[1].resp.status = 401
            refreshed == n >= 2 /\ RefreshYieldedToken(sent[2])
                         /\ ~(pc = "idle" /\ result.err = "IoError")
        IN /\ CountKind(sent, "refresh-access-token") <= 1
           /\ CountKind(sent, "request") <= 2
           /\ n <= 3
           /\ n >= 1 => sent[1].kind = "request"
           /\ n >= 2 => first401 /\ sent[2].kind = "refresh-access-token"
           /\ n >= 3 => /\ refreshed
                        /\ sent[3].kind = "request"
                        /\ sent[3].cookie = Unwrap(sent[2].resp.cookie_access)
           /\ pc = "idle" =>
                 /\ first401 => n >= 2
                 /\ refreshed => n = 3
                 /\ (n = 3 /\ sent[3].resp.status = 401) =>
                        result.ok /\ result.status = 401

\* A call that got 401 twice, the second time with a new access token
C1_Witness ==
    /\ pc = "idle"
    /\ frame.name = "make_authenticated_request"
    /\ Len(sent) = 3
    /\ sent[3].resp.status = 401
    /\ sent[3].cookie /= sent[1].cookie

\* C2: when the refresh after a 401 fails, for whatever reason,
\* make_authenticated_request returns TokenExpired, does not re-send the
\* request and leaves the stored tokens unchanged.
C2_RefreshFailureIsTokenExpired ==
    (/\ frame.name = "make_authenticated_request"
     /\ pc = "idle"
     /\ Len(sent) >= 2
     /\ ~RefreshYieldedToken(sent[2]))
    => (/\ result.err = "TokenExpired"
        /\ Len(sent) = 2
        /\ ~frame.store_changed)

C4_ExpiresAtNeverRegresses ==
    [][(/\ pc \in {"refresh_tokens", "request_refresh"}
        /\ tokens' /= tokens
        /\ IsSome(Unwrap(tokens).expires_at))
       => Unwrap(Unwrap(tokens').expires_at) >= Unwrap(Unwrap(tokens).expires_at)]_vars

----------------------------------------------------------------------------
(* Properties of the login protocol, checked under SpecLogin *)

Step2CarriesTokens(resp) ==
    /\ resp.status = "ok"
    /\ IsSome(resp.cookie_access) \/ IsSome(resp.body_access)
    /\ IsSome(resp.cookie_refresh) \/ IsSome(resp.body_refresh)

\* C5: a non-success response to login step 1 ends the login with
\* InvalidCredentials: no OTP is fetched, no step-2 request is sent, and the
\* stored tokens and the token file are unchanged.
C5_Step1FailureIsInvalidCredentials ==
    (/\ frame.name = "login_full"
     /\ Len(sent) >= 1
     /\ sent[1].resp.status = "non_success")
    => (/\ pc = "idle"
        /\ ~result.ok
        /\ result.err = "InvalidCredentials"
        /\ frame.wait_calls = 0
        /\ Len(sent) = 1
        /\ ~frame.store_changed)

\* A rejected login of a client that holds tokens and has a fetcher
C5_Witness ==
    /\ pc = "idle"
    /\ frame.name = "login_full"
    /\ Len(sent) = 1
    /\ sent[1].resp.status = "non_success"
    /\ IsSome(tokens)
    /\ otp_fetcher
    /\ ~IsSome(frame.otp_code)

\* C6: whatever goes wrong in login step 2, the login returns InvalidOtp, and
\* the challenge of the attempt is not kept.
C6_Step2FailureIsInvalidOtp ==
    (/\ frame.name = "login_full"
     /\ pc = "idle"
     /\ Len(sent) = 2
     /\ ~result.ok)
    => (/\ result.err = "InvalidOtp"
        /\ frame.otp_jwt_token = None)

\* C7: the error of a failed login tells its cause; a wait for the OTP that
\* met no mailbox failure and ran into the timeout does not end in the error
\* of a bad password, of a wrong OTP or of a mailbox failure (EmailError).
C7_TimeoutIsNotEmailError ==
    (/\ frame.name = "login_full"
     /\ pc = "idle"
     /\ frame.wait_outcome = "timeout")
    => result.err \notin {"InvalidCredentials", "InvalidOtp", "EmailError"}

\* C8: a supplied code is the code sent in step 2 and the fetcher is not
\* called; without a code and with a fetcher, wait_for_otp is called once,
\* with a bounded timeout; without a code and without a fetcher the login
\* fails with OtpRequired and sends no step-2 request.
C8_OtpResolution ==
    frame.name = "login_full" =>
        LET resolved == \/ pc \in {"wait_for_otp", "login_step2"}
                        \/ /\ pc = "idle"
                           /\ Len(sent) >= 1
                           /\ sent[1].resp.status = "ok"
        IN /\ IsSome(frame.otp_code) =>
                 /\ frame.wait_calls = 0
                 /\ Len(sent) >= 2 => sent[2].code = Unwrap(frame.otp_code)
           /\ (~IsSome(frame.otp_code) /\ otp_fetcher) =>
                 /\ frame.wait_calls = IF resolved THEN 1 ELSE 0
                 /\ frame.elapsed <= OTP_TIMEOUT
                 /\ Len(sent) >= 2 => sent[2].code \in MailCodes
           /\ (~IsSome(frame.otp_code) /\ ~otp_fetcher /\ resolved) =>
                 /\ pc = "idle"
                 /\ result.err = "OtpRequired"
                 /\ Len(sent) = 1
                 /\ frame.wait_calls = 0

\* A login with a supplied code while a fetcher is configured and an unread
\* OTP mail waits in the mailbox
C8_Witness ==
    /\ pc = "idle"
    /\ frame.name = "login_full"
    /\ IsSome(frame.otp_code)
    /\ otp_fetcher
    /\ Len(sent) = 2
    /\ \E i \in 1..Len(mailbox) : ~mailbox[i].seen /\ mailbox[i].code \in MailCodes

\* C9: step 1 succeeds, no code is supplied, a fetcher is configured, the OTP
\* arrives before the timeout and step 2 succeeds (its response carries the
\* tokens and they are stored): the login returns the tokens, get_tokens
\* returns them, ensure_valid_authentication takes its branch without
\* refresh, and the token file holds them.  Such a login fails only when the
\* token file cannot be written.
C9_FetchedOtpLogin ==
    (/\ frame.name = "login_full"
     /\ pc = "idle"
     /\ ~IsSome(frame.otp_code)
     /\ otp_fetcher
     /\ frame.wait_outcome = "found"
     /\ Len(sent) = 2
     /\ Step2CarriesTokens(sent[2].resp))
    => IF result.ok
       THEN /\ IsSome(result.tokens)
            /\ get_tokens = result.tokens
            /\ ensure_branch(get_tokens, now) = "valid"
            /\ file = FileOf(Unwrap(result.tokens))
            /\ load_from_file_sync(file) = result.tokens
       ELSE result.err = "IoError"

\* A login through the fetcher that replaced tokens loaded at construction
C9_Witness ==
    /\ pc = "idle"
    /\ frame.name = "login_full"
    /\ frame.wait_outcome = "found"
    /\ result.ok
    /\ frame.store_changed
    /\ Unwrap(result.tokens).access_token = "a2"

\* C10: in login step 2, for the access token and for the refresh token
\* independently, the stored value is the cookie value whenever the response
\* carries the cookie, whatever the JSON body carries; the body value is used
\* only when the cookie is absent; when neither carries it the login fails
\* and nothing is stored.
C10_CookiePrecedence ==
    (/\ frame.name = "login_full"
     /\ pc = "idle"
     /\ Len(sent) = 2
     /\ sent[2].resp.status = "ok")
    => LET r == sent[2].resp
       IN IF Step2CarriesTokens(r)
          THEN /\ IsSome(tokens)
               /\ Unwrap(tokens).access_token =
                      IF IsSome(r.cookie_access) THEN Unwrap(r.cookie_access)
                      ELSE Unwrap(r.body_access)
               /\ Unwrap(tokens).refresh_token =
                      IF IsSome(r.cookie_refresh) THEN Unwrap(r.cookie_refresh)
                      ELSE Unwrap(r.body_refresh)
          ELSE /\ ~result.ok
               /\ ~frame.store_changed

\* Both cookies and both body values present, the body values different
C10_Witness ==
    /\ pc = "idle"
    /\ frame.name = "login_full"
    /\ Len(sent) = 2
    /\ sent[2].resp.status = "ok"
    /\ IsSome(sent[2].resp.cookie_access)
    /\ IsSome(sent[2].resp.body_access)
    /\ sent[2].resp.cookie_access /= sent[2].resp.body_access
    /\ ~IsSome(sent[2].resp.cookie_refresh)
    /\ IsSome(sent[2].resp.body_refresh)

----------------------------------------------------------------------------
(* TokenManager shared by concurrent tasks.  set_tokens and clear take      *)
(* &self: each swaps the tokens inside its write-locked block, drops the    *)
(* guard, and only then touches the token file.                             *)

MaxTasks == 2
Tasks == 1..MaxTasks

\* The components of the one AuthClient a specification leaves out
NoClient ==
    /\ now = 0
    /\ last_used_endpoint = None
    /\ otp_fetcher = FALSE
    /\ mailbox = <<>>
    /\ pc = "idle"
    /\ frame = NewFrame("")
    /\ sent = <<>>
    /\ result = NoResult

client_vars == <<now, last_used_endpoint, otp_fetcher, mailbox, pc, frame, sent, result>>
limiter_vars == <<clock, requests, released>>

\* Arguments of set_tokens
TokenValues == {AuthTokens(a, "r1", None) : a \in AccessValues}

\* Outcomes of fs::remove_file in clear
RemoveOutcomes == {"ok", "fail"}

\* TokenManager::clear after its write-locked block: the file after
\* `if path.exists() { fs::remove_file(path)? }` with outcome r
remove_file(f, r) ==
    IF f.state = "absent" THEN f
    ELSE IF r = "ok" THEN FileAbsent ELSE f

\* Task t goes on at position p with local value l
TaskStep(t, p, l) ==
    /\ task_pc' = [task_pc EXCEPT ![t] = p]
    /\ task_local' = [task_local EXCEPT ![t] = l]

\* The locals of a task are the tokens argument of its running call (arg)
\* and whether a call of the task has returned Err (failed)
InitTokenManager ==
    /\ file \in {FileAbsent} \cup {FileOf(t) : t \in InitTokens}
    /\ tokens = load_from_file_sync(file)
    /\ task_pc = [t \in Tasks |-> "idle"]
    /\ task_local = [t \in Tasks |-> [arg |-> None, failed |-> FALSE]]
    /\ NoClient /\ NoLimiter /\ NoSessionManager /\ NoExecutor /\ NoPeer

\* set_tokens, its write-locked block: *guard = Some(tokens.clone())
set_tokens_swap(t) ==
    /\ task_pc[t] = "idle"
    /\ \E toks \in TokenValues :
           /\ tokens' = Some(toks)
           /\ TaskStep(t, "save_to_file", [task_local[t] EXCEPT !.arg = Some(toks)])
    /\ UNCHANGED <<file, client_vars, limiter_vars, session, lock, workers, session_file, bucket,
                   peer_last_used_endpoint>>

\* set_tokens after the guard is dropped: save_to_file(path, &tokens)
set_tokens_save(t) ==
    /\ task_pc[t] = "save_to_file"
    /\ \E w \in WriteOutcomes :
           /\ file' = save_to_file(file, Unwrap(task_local[t].arg), w)
           /\ TaskStep(t, "idle",
                       [arg |-> None,
                        failed |-> task_local[t].failed \/ set_tokens_error(w) /= ""])
    /\ UNCHANGED <<tokens, client_vars, limiter_vars, session, lock, workers, session_file, bucket,
                   peer_last_used_endpoint>>

\* clear, its write-locked block: *guard = None
clear_swap(t) ==
    /\ task_pc[t] = "idle"
    /\ tokens' = None
    /\ TaskStep(t, "remove_file", task_local[t])
    /\ UNCHANGED <<file, client_vars, limiter_vars, session, lock, workers, session_file, bucket,
                   peer_last_used_endpoint>>

\* clear after the guard is dropped: the file is removed if it exists
clear_remove(t) ==
    /\ task_pc[t] = "remove_file"
    /\ \E r \in RemoveOutcomes :
           /\ file' = remove_file(file, r)
           /\ TaskStep(t, "idle",
                       [arg |-> None,
                        failed |-> task_local[t].failed
                                   \/ (file.state /= "absent" /\ r = "fail")])
    /\ UNCHANGED <<tokens, client_vars, limiter_vars, session, lock, workers, session_file, bucket,
                   peer_last_used_endpoint>>

NextTokenManager ==
    \E t \in Tasks :
        \/ set_tokens_swap(t)
        \/ set_tokens_save(t)
        \/ clear_swap(t)
        \/ clear_remove(t)

SpecTokenManager == InitTokenManager /\ [][NextTokenManager]_vars

\* C11: whenever no set_tokens or clear call is in progress, the token file
\* holds exactly the tokens get_tokens returns, and does not exist when
\* get_tokens returns none: a TokenManager constructed on the same path
\* would load the tokens the running one holds.  Stated for the runs in
\* which every file operation succeeded.
C11_FileMirrorsStore ==
    (\A t \in Tasks : task_pc[t] = "idle" /\ ~task_local[t].failed) =>
        /\ load_from_file_sync(file) = get_tokens
        /\ (get_tokens = None => file = FileAbsent)

----------------------------------------------------------------------------
(* RateLimiter: the sliding-window limiter, shared by concurrent callers    *)

MaxClock == 4
MaxReleases == 4

\* RateLimiter::new(max_requests, window)
max_requests == 1
window == 2

\* acquire, its loop: entries older than the window leave the front
RECURSIVE prune(_, _)
prune(reqs, n) ==
    IF reqs /= <<>> /\ n - Head(reqs) > window THEN prune(Tail(reqs), n) ELSE reqs

\* RateLimiter::acquire at instant n: the deque it leaves and the wait it returns
acquire(reqs, n) ==
    LET kept == prune(reqs, n) IN
    IF Len(kept) >= max_requests /\ kept /= <<>>
    THEN [requests |-> kept, wait_time |-> window - (n - Head(kept))]
    ELSE [requests |-> Append(kept, n), wait_time |-> 0]

\* A caller's local is the instant its sleep ends
InitLimiter ==
    /\ task_pc = [t \in Tasks |-> "idle"]
    /\ task_local = [t \in Tasks |-> 0]
    /\ tokens = None /\ file = FileAbsent
    /\ NoLimiter /\ NoClient /\ NoSessionManager /\ NoExecutor /\ NoPeer

\* wait_if_needed up to its sleep: acquire runs inside one write-locked block;
\* a caller that is told to wait sleeps, one that is not returns
wait_if_needed(t) ==
    /\ task_pc[t] = "idle"
    /\ Len(released) < MaxReleases
    /\ LET a == acquire(requests, clock) IN
           /\ requests' = a.requests
           /\ IF a.wait_time > 0
              THEN /\ TaskStep(t, "sleeping", clock + a.wait_time)
                   /\ UNCHANGED released
              ELSE /\ TaskStep(t, "idle", 0)
                   /\ released' = Append(released, clock)
    /\ UNCHANGED <<clock, tokens, file, client_vars, session, lock, workers, session_file, bucket,
                   peer_last_used_endpoint>>

\* wait_if_needed after sleep(wait_time).await: it returns
sleep_elapsed(t) ==
    /\ task_pc[t] = "sleeping"
    /\ clock >= task_local[t]
    /\ TaskStep(t, "idle", 0)
    /\ released' = Append(released, clock)
    /\ UNCHANGED <<clock, requests, tokens, file, client_vars, session, lock,
                   workers, session_file, bucket, peer_last_used_endpoint>>

\* Instant::now() advances
ClockTick ==
    /\ clock < MaxClock
    /\ clock' = clock + 1
    /\ UNCHANGED <<requests, released, task_pc, task_local, tokens, file,
                   client_vars, session, lock, workers, session_file, bucket, peer_last_used_endpoint>>

NextLimiter ==
    \/ \E t \in Tasks : wait_if_needed(t) \/ sleep_elapsed(t)
    \/ ClockTick

SpecLimiter == InitLimiter /\ [][NextLimiter]_vars

\* C12: at most max_requests callers are released (return from
\* wait_if_needed) within any rolling interval of length window.
C12_AtMostNPerWindow ==
    \A start \in 0..MaxClock :
        Cardinality({i \in DOMAIN released :
                        start <= released[i] /\ released[i] < start + window})
            <= max_requests

----------------------------------------------------------------------------
(* EnhancedClient: make_request and make_json_request compose the global    *)
(* limiter, retry_with_config and the authenticated-request primitive of    *)
(* the AuthClient behind Arc<RwLock<AuthClient>>.  lock is that RwLock.     *)

\* RetryConfig.max_retries
max_retries == 2

\* What make_authenticated_request returns when tokens are stored: a
\* response of any status (0: none), or the error of a failed send or of a
\* failed refresh after a 401.  Its steps and its effect on the token store
\* are those of SpecSession; here the store only decides between
\* TokenNotFound and a request.
PrimitiveOutcomes ==
    [ok : {TRUE}, status : {200, 404, 429, 500}, err : {""}]
    \cup [ok : {FALSE}, status : {0},
          err : {"NetworkError_timeout", "NetworkError", "TokenExpired"}]

\* make_json_request: what it makes of the response make_request returned
make_json_request_result(o) ==
    IF ~o.ok THEN o
    ELSE IF o.status = 200 THEN o
    ELSE IF o.status = 429 THEN [ok |-> FALSE, status |-> 429, err |-> "RateLimitExceeded"]
    ELSE [ok |-> FALSE, status |-> o.status, err |-> "RequestFailed"]

\* The locals of a call: the operation, the loop variable of
\* retry_with_config, the number of invocations of the primitive and of
\* backoff sleeps so far, the instant a limiter sleep ends, and what the
\* task's last finished call returned
NewCall(opname) ==
    [op |-> opname, attempt |-> 0, invocations |-> 0, sleeps |-> 0, wake |-> 0,
     outcome |-> [ok |-> FALSE, status |-> 0, err |-> ""]]

InitEnhanced ==
    /\ tokens \in Opt(TokenValues)
    /\ file = FileAbsent
    /\ task_pc = [t \in Tasks |-> "idle"]
    /\ task_local = [t \in Tasks |-> NewCall("")]
    /\ NoLimiter /\ NoClient /\ NoSessionManager /\ NoExecutor /\ NoPeer

\* make_request up to the retry loop: global_rate_limiter.wait_if_needed
make_request(t) ==
    /\ task_pc[t] = "idle"
    /\ \E opname \in {"make_request", "make_json_request"} :
         LET a == acquire(requests, clock) IN
           /\ requests' = a.requests
           /\ IF a.wait_time > 0
              THEN TaskStep(t, "limiter_sleep",
                            [NewCall(opname) EXCEPT !.wake = clock + a.wait_time])
              ELSE TaskStep(t, "attempt", NewCall(opname))
    /\ UNCHANGED <<clock, released, tokens, file, client_vars, session, lock,
                   workers, session_file, bucket, peer_last_used_endpoint>>

\* sleep(wait_time).await of the limiter, or sleep(delay).await of the retry
\* loop, has elapsed
enhanced_sleep_elapsed(t) ==
    /\ \/ task_pc[t] = "limiter_sleep" /\ clock >= task_local[t].wake
       \/ task_pc[t] = "backoff"
    /\ TaskStep(t, "attempt", task_local[t])
    /\ UNCHANGED <<limiter_vars, tokens, file, client_vars, session, lock,
                   workers, session_file, bucket, peer_last_used_endpoint>>

\* Variant of retry_with_config: one attempt more than max_retries allows
retry_with_config_once_more(t, l, o) ==
    IF o.ok
    THEN TaskStep(t, "idle",
                  [l EXCEPT !.outcome =
                      IF l.op = "make_json_request" THEN make_json_request_result(o) ELSE o])
    ELSE IF l.attempt <= max_retries
    THEN TaskStep(t, "backoff",
                  [l EXCEPT !.attempt = @ + 1, !.sleeps = @ + 1, !.outcome = o])
    ELSE TaskStep(t, "idle", [l EXCEPT !.outcome = o])

\* retry_with_config after operation() returned o
retry_with_config(t, l, o) ==
    IF o.ok
    THEN TaskStep(t, "idle",
                  [l EXCEPT !.outcome =
                      IF l.op = "make_json_request" THEN make_json_request_result(o) ELSE o])
    ELSE IF l.attempt < max_retries
    THEN TaskStep(t, "backoff",
                  [l EXCEPT !.attempt = @ + 1, !.sleeps = @ + 1, !.outcome = o])
    ELSE TaskStep(t, "idle", [l EXCEPT !.outcome = o])

\* operation(): auth_client.write().await, then make_authenticated_request
\* up to its send; without stored tokens it returns TokenNotFound at once
\* and the guard is dropped
invoke_primitive(t) ==
    /\ task_pc[t] = "attempt"
    /\ lock.writer = None
    /\ LET l == [task_local[t] EXCEPT !.invocations = @ + 1] IN
         IF IsSome(get_tokens)
         THEN /\ lock' = [lock EXCEPT !.writer = Some(t)]
              /\ TaskStep(t, "in_flight", l)
         ELSE /\ UNCHANGED lock
              /\ retry_with_config(t, l, [ok |-> FALSE, status |-> 0, err |-> "TokenNotFound"])
    /\ UNCHANGED <<limiter_vars, tokens, file, client_vars, session, workers, session_file, bucket,
                   peer_last_used_endpoint>>

\* make_authenticated_request returns, the guard is dropped
primitive_returns(t) ==
    /\ task_pc[t] = "in_flight"
    /\ lock' = [lock EXCEPT !.writer = None]
    /\ \E o \in PrimitiveOutcomes : retry_with_config(t, task_local[t], o)
    /\ UNCHANGED <<limiter_vars, tokens, file, client_vars, session, workers, session_file, bucket,
                   peer_last_used_endpoint>>

NextEnhanced ==
    \/ \E t \in Tasks :
          \/ make_request(t)
          \/ enhanced_sleep_elapsed(t)
          \/ invoke_primitive(t)
          \/ primitive_returns(t)
    \/ ClockTick

SpecEnhanced == InitEnhanced /\ [][NextEnhanced]_vars

\* C13: a call that ends with an error that is not a retryable condition has
\* invoked the primitive exactly once and has not slept for backoff.
C13_FatalErrorNotRetried ==
    \A t \in Tasks :
        (/\ task_pc[t] = "idle"
         /\ task_local[t].op /= ""
         /\ ~task_local[t].outcome.ok
         /\ task_local[t].outcome.err \in {"TokenNotFound", "TokenExpired"})
        => (task_local[t].invocations = 1 /\ task_local[t].sleeps = 0)

\* C14: a call whose last response has status 429, 500, 502, 503 or 504 has
\* used up its retries; a make_json_request that fails after that reports
\* RateLimitExceeded for a 429 and RequestFailed for any other failure.
C14_RetryableStatusRetried ==
    \A t \in Tasks :
        (task_pc[t] = "idle" /\ task_local[t].op /= "") =>
            /\ task_local[t].outcome.status \in {429, 500, 502, 503, 504}
                  => task_local[t].invocations = max_retries + 1
            /\ (task_local[t].op = "make_json_request" /\ ~task_local[t].outcome.ok)
                  => task_local[t].outcome.err =
                        IF task_local[t].outcome.status = 429
                        THEN "RateLimitExceeded" ELSE "RequestFailed"

\* C17: no task holds the write lock of the AuthClient while its network
\* call is awaited.
C17_NoWriteLockAcrossAwait ==
    \A t \in Tasks : task_pc[t] = "in_flight" => lock.writer /= Some(t)

----------------------------------------------------------------------------
(* Endpoint rotation of two AuthClient instances: the client of the login   *)
(* and refresh calls, and a second instance (peer) that selects endpoints   *)
(* through get_current_endpoint.  last_used_endpoint is a field of each.    *)

\* get_current_endpoint of the second instance
peer_get_current_endpoint ==
    /\ \E endpoint \in available_endpoints(peer_last_used_endpoint) :
           peer_last_used_endpoint' = Some(endpoint)
    /\ UNCHANGED <<tokens, file, client_vars, task_pc, task_local, limiter_vars,
                   session, lock, workers, session_file, bucket>>

NextEndpoints ==
    \/ login_full
    \/ login_step1
    \/ resolve_otp
    \/ login_step2_full
    \/ refresh_tokens
    \/ return_early
    \/ refresh_tokens_request
    \/ get_current_endpoint
    \/ peer_get_current_endpoint

\* Both instances as constructed, no token file on disk
InitEndpoints ==
    /\ InitSession
    /\ file = FileAbsent

SpecEndpoints == InitEndpoints /\ [][NextEndpoints]_vars

----------------------------------------------------------------------------
(* SessionManager: the AuthSession behind Arc<RwLock<Option<AuthSession>>>, *)
(* read and written by concurrent tasks.  A writer prepares its values      *)
(* outside the lock and assigns them inside one write-locked block; a       *)
(* reader clones or inspects the session inside one read-locked block.      *)
(* auto_save is off.  lock is the RwLock of the session.                    *)

\* AuthSession::new, with the cookies create_session puts in when it is given
\* some; login stands for the tokens (and the user) of one login
NewSession(login, cookies) ==
    [tokens |-> login, cookies |-> cookies,
     turnkey_session |-> None, last_refreshed_at |-> None]

\* The session in the file load_session reads
StoredSession == NewSession("stored", Some("stored"))

\* The writers and their arguments
WriterCalls ==
    {[op |-> "create_session", arg |-> login, cookies |-> c] :
        login \in {"A", "B"}, c \in {None, Some("u")}}
    \cup [op : {"update_tokens", "update_cookies", "setup_turnkey_session"},
          arg : {"u"}, cookies : {None}]
    \cup [op : {"load_session", "clear_session"}, arg : {""}, cookies : {None}]

\* The assignments a writer makes inside its write-locked block, in order;
\* "*" is the assignment to the whole of *guard
assignments(c, s) ==
    CASE c.op = "create_session" ->
            <<[field |-> "*", value |-> Some(NewSession(c.arg, c.cookies))]>>
      [] c.op = "load_session" -> <<[field |-> "*", value |-> Some(StoredSession)]>>
      [] c.op = "clear_session" -> <<[field |-> "*", value |-> None]>>
      [] ~IsSome(s) -> <<>>
      [] c.op = "update_tokens" ->
            <<[field |-> "tokens", value |-> c.arg],
              [field |-> "last_refreshed_at", value |-> Some(c.arg)]>>
      [] c.op = "update_cookies" -> <<[field |-> "cookies", value |-> Some(c.arg)]>>
      [] c.op = "setup_turnkey_session" ->
            <<[field |-> "turnkey_session", value |-> Some(c.arg)]>>

\* One assignment applied to the session
assign(s, a) ==
    IF a.field = "*" THEN a.value
    ELSE Some([Unwrap(s) EXCEPT ![a.field] = a.value])

\* All the assignments of a writer applied: the session it leaves
RECURSIVE assign_all(_, _)
assign_all(s, as) == IF as = <<>> THEN s ELSE assign_all(assign(s, Head(as)), Tail(as))

\* The sessions that whole writer operations make of the sessions in S
RECURSIVE CompleteFrom(_)
CompleteFrom(S) ==
    LET more == S \cup {assign_all(s, assignments(c, s)) : s \in S, c \in WriterCalls}
    IN IF more = S THEN S ELSE CompleteFrom(more)

CompleteSessions == CompleteFrom({None, Some(StoredSession)})

\* Variant of read_granted: a read guard is handed out beside a writer
read_granted_beside_writer(l) == TRUE

\* RwLock::read is granted while no write guard is out
read_granted(l) == l.writer = None

\* The locals of a task are the assignments its writer has still to make
\* (pending) and the tokens its reader has read so far (observed)
InitSessionManager ==
    /\ session \in {None, Some(StoredSession)}
    /\ lock = Unlocked
    /\ session_file = FileAbsent
    /\ task_pc = [t \in Tasks |-> "idle"]
    /\ task_local = [t \in Tasks |-> [pending |-> <<>>, observed |-> None]]
    /\ tokens = None /\ file = FileAbsent
    /\ NoLimiter /\ NoClient /\ NoExecutor /\ NoPeer

\* A writer takes the write guard, granted while no guard is out
writer_lock(t) ==
    /\ task_pc[t] = "idle"
    /\ lock.writer = None /\ lock.readers = {}
    /\ lock' = [lock EXCEPT !.writer = Some(t)]
    /\ \E c \in WriterCalls :
           TaskStep(t, "writing", [task_local[t] EXCEPT !.pending = assignments(c, session)])
    /\ UNCHANGED <<session, tokens, file, client_vars, limiter_vars, workers, session_file, bucket,
                   peer_last_used_endpoint>>

\* The writer makes its next assignment
writer_assign(t) ==
    /\ task_pc[t] = "writing"
    /\ task_local[t].pending /= <<>>
    /\ session' = assign(session, Head(task_local[t].pending))
    /\ TaskStep(t, "writing", [task_local[t] EXCEPT !.pending = Tail(@)])
    /\ UNCHANGED <<lock, tokens, file, client_vars, limiter_vars, workers, session_file, bucket,
                   peer_last_used_endpoint>>

\* The write guard is dropped
writer_unlock(t) ==
    /\ task_pc[t] = "writing"
    /\ task_local[t].pending = <<>>
    /\ lock' = [lock EXCEPT !.writer = None]
    /\ TaskStep(t, "idle", task_local[t])
    /\ UNCHANGED <<session, tokens, file, client_vars, limiter_vars, workers, session_file, bucket,
                   peer_last_used_endpoint>>

\* A reader (get_session, get_access_token, get_refresh_token,
\* get_cookie_header, is_session_valid) takes a read guard and reads the
\* tokens of the session
reader_lock(t) ==
    /\ task_pc[t] = "idle"
    /\ read_granted(lock)
    /\ lock' = [lock EXCEPT !.readers = @ \cup {t}]
    /\ TaskStep(t, "reading",
                [task_local[t] EXCEPT !.observed =
                    IF IsSome(session) THEN Some(Unwrap(session).tokens) ELSE None])
    /\ UNCHANGED <<session, tokens, file, client_vars, limiter_vars, workers, session_file, bucket,
                   peer_last_used_endpoint>>

\* What reader t sees when it reads the other fields now: the tokens it read
\* first with the rest of the session as it is
observation(t) ==
    IF IsSome(task_local[t].observed) /\ IsSome(session)
    THEN Some([Unwrap(session) EXCEPT !.tokens = Unwrap(task_local[t].observed)])
    ELSE None

\* The reader reads the rest of the session, returns and drops its guard
reader_unlock(t) ==
    /\ task_pc[t] = "reading"
    /\ lock' = [lock EXCEPT !.readers = @ \ {t}]
    /\ TaskStep(t, "idle", [task_local[t] EXCEPT !.observed = None])
    /\ UNCHANGED <<session, tokens, file, client_vars, limiter_vars, workers, session_file, bucket,
                   peer_last_used_endpoint>>

NextSessionManager ==
    \E t \in Tasks :
        \/ writer_lock(t)
        \/ writer_assign(t)
        \/ writer_unlock(t)
        \/ reader_lock(t)
        \/ reader_unlock(t)

SpecSessionManager == InitSessionManager /\ [][NextSessionManager]_vars

\* C16: every session a reader observes is the complete result of whole
\* writer operations, and so is the session itself whenever no writer is
\* inside its write-locked block: after racing create_session calls it is one
\* caller's session, not a mix.
C16_ReadersSeeCompleteSessions ==
    /\ \A t \in Tasks : task_pc[t] = "reading" => observation(t) \in CompleteSessions
    /\ lock.writer = None => session \in CompleteSessions

\* Two readers are inside their read-locked blocks, observing a session
\* that create_session made with cookies and update_tokens and
\* setup_turnkey_session have changed since
C16_Witness ==
    \A t \in Tasks :
        /\ task_pc[t] = "reading"
        /\ IsSome(observation(t))
        /\ Unwrap(observation(t)).tokens = "u"
        /\ Unwrap(observation(t)).last_refreshed_at = Some("u")
        /\ Unwrap(observation(t)).cookies = Some("u")
        /\ Unwrap(observation(t)).turnkey_session = Some("u")

----------------------------------------------------------------------------
(* The login on a tokio runtime, beside other tasks of the same runtime.    *)
(* A task gives up its worker thread at an .await; fetch_otp calls          *)
(* wait_for_otp, which is not async and sleeps with std::thread::sleep, so  *)
(* the login keeps its worker thread for the whole of the wait.             *)

\* Runtime flavours: current_thread (1 worker) up to MaxWorkers
MaxWorkers == 2

\* Worker threads kept by calls that block: the login inside wait_for_otp
blocked_workers == IF pc = "wait_for_otp" THEN 1 ELSE 0

\* A login with a mailbox fetcher and one other task, ready to run, on a runtime
InitExecutor ==
    /\ file = FileAbsent
    /\ tokens = None
    /\ now = 0 /\ last_used_endpoint = None
    /\ otp_fetcher = TRUE
    /\ mailbox = <<>> /\ pc = "idle" /\ frame = NewFrame("") /\ sent = <<>>
    /\ result = NoResult
    /\ workers \in 1..MaxWorkers
    /\ task_pc = [t \in Tasks |-> IF t = 1 THEN "ready" ELSE "idle"]
    /\ task_local = [t \in Tasks |-> 0]
    /\ NoLimiter /\ NoSessionManager /\ NoPeer

\* Another task of the runtime is polled on a free worker thread and runs up
\* to its next .await (an authenticated request: up to request.send().await)
task_poll(t) ==
    /\ task_pc[t] = "ready"
    /\ blocked_workers < workers
    /\ TaskStep(t, "awaiting", task_local[t])
    /\ UNCHANGED <<tokens, file, client_vars, limiter_vars, session, lock, workers, session_file, bucket,
                   peer_last_used_endpoint>>

\* What the task awaits completes: the task is ready to be polled again
task_wake(t) ==
    /\ task_pc[t] = "awaiting"
    /\ TaskStep(t, "ready", task_local[t])
    /\ UNCHANGED <<tokens, file, client_vars, limiter_vars, session, lock, workers, session_file, bucket,
                   peer_last_used_endpoint>>

NextExecutor ==
    \/ login_full
    \/ login_step1
    \/ resolve_otp
    \/ wait_for_otp_poll
    \/ wait_for_otp_timeout
    \/ login_step2_full
    \/ deliver_mail
    \/ \E t \in Tasks : task_poll(t) \/ task_wake(t)

SpecExecutor == InitExecutor /\ [][NextExecutor]_vars

\* C18: while the login waits for an OTP, a task of the same runtime that is
\* ready to run can take a step: a worker thread is free for it.
C18_OtpWaitDoesNotBlock ==
    (pc = "wait_for_otp" /\ \E t \in Tasks : task_pc[t] = "ready")
        => blocked_workers < workers

----------------------------------------------------------------------------
(* AuthTokens::is_expired and AuthTokens::needs_refresh, for every token    *)
(* and every instant. Time is counted in minutes, as in the rest of the     *)
(* model; the calls read the clock (chrono::Utc::now()) when they are made. *)

REFRESH_BUFFER == 15

\* Variant of needs_refresh: the instant expires_at - buffer itself is excluded
needs_refresh_strict(t, n) ==
    IF IsSome(t.expires_at) THEN n > Unwrap(t.expires_at) - REFRESH_BUFFER ELSE FALSE

\* AuthTokens::needs_refresh
needs_refresh(t, n) ==
    IF IsSome(t.expires_at) THEN n >= Unwrap(t.expires_at) - REFRESH_BUFFER ELSE FALSE

\* Any token, with or without an expiry, at any instant
InitExpiry ==
    /\ tokens \in {Some(AuthTokens("a1", "r1", e)) : e \in Opt(0..MaxTime)}
    /\ now \in 0..MaxTime
    /\ file = FileAbsent
    /\ last_used_endpoint = None /\ otp_fetcher = FALSE /\ mailbox = <<>>
    /\ pc = "idle" /\ frame = NewFrame("") /\ sent = <<>> /\ result = NoResult
    /\ NoTasks /\ NoLimiter /\ NoSessionManager /\ NoExecutor /\ NoPeer

\* tokens.is_expired() is called; result.ok is what it returned
is_expired_call ==
    /\ result' = [NoResult EXCEPT !.op = "is_expired",
                                  !.ok = is_expired(Unwrap(tokens), now)]
    /\ UNCHANGED <<tokens, file, now, last_used_endpoint, otp_fetcher, mailbox, pc,
                   frame, sent>>
    /\ UNCHANGED ext_vars

\* tokens.needs_refresh() is called; result.ok is what it returned
needs_refresh_call ==
    /\ result' = [NoResult EXCEPT !.op = "needs_refresh",
                                  !.ok = needs_refresh(Unwrap(tokens), now)]
    /\ UNCHANGED <<tokens, file, now, last_used_endpoint, otp_fetcher, mailbox, pc,
                   frame, sent>>
    /\ UNCHANGED ext_vars

\* A minute passes; what the last call returned is no longer current
minute_passes ==
    /\ now < MaxTime
    /\ now' = now + 1
    /\ result' = NoResult
    /\ UNCHANGED <<tokens, file, last_used_endpoint, otp_fetcher, mailbox, pc,
                   frame, sent>>
    /\ UNCHANGED ext_vars

NextExpiry == is_expired_call \/ needs_refresh_call \/ minute_passes

SpecExpiry == InitExpiry /\ [][NextExpiry]_vars

\* C19: is_expired returns true exactly when expires_at is present and
\* now >= expires_at - 5 min; needs_refresh returns true exactly when
\* expires_at is present and now >= expires_at - 15 min (so never without an
\* expires_at); is_expired implies needs_refresh; a token that expired one
\* unit of time ago is expired, one expiring in 1 h does not need refresh,
\* one expiring in 10 min needs refresh and is not expired.
C19_ExpiryBuffers ==
    LET t == Unwrap(tokens)
        e == t.expires_at
    IN  /\ result.op = "is_expired" =>
            result.ok = (IsSome(e) /\ now >= Unwrap(e) - 5)
        /\ result.op = "needs_refresh" =>
            result.ok = (IsSome(e) /\ now >= Unwrap(e) - 15)
        /\ e = None => ~is_expired(t, now) /\ ~needs_refresh(t, now)
        /\ is_expired(t, now) => needs_refresh(t, now)
        /\ e = Some(now - 1) => is_expired(t, now)
        /\ e = Some(now + 60) => ~needs_refresh(t, now)
        /\ e = Some(now + 10) => needs_refresh(t, now) /\ ~is_expired(t, now)

\* needs_refresh has returned true for a token that expires in 10 min and is
\* not expired
C19_Witness ==
    /\ result.op = "needs_refresh"
    /\ result.ok
    /\ Unwrap(tokens).expires_at = Some(now + 10)
    /\ ~is_expired(Unwrap(tokens), now)

----------------------------------------------------------------------------
(* P-256 key derivation from a password (utils/p256_crypto.rs), scaled: a   *)
(* derived key is one byte, the curve is a group of CURVE_ORDER elements,   *)
(* PBKDF2-HMAC-SHA256 is a fixed mixing function of password and salt.      *)
(* Base64 and hex are computed digit by digit; a base64 text is the         *)
(* sequence of its digits 0..63, with 64 for the padding character '='.     *)

\* Length of the salt that the random generator fills (32 in the code)
SaltLen == 2

CURVE_ORDER == 241

Passwords == {<<1>>, <<2>>}
SaltBytes == {0, 97, 255}

\* Salts the random generator can draw
RngSalts == [1..SaltLen -> SaltBytes]

\* Salts a caller can supply
Salts == UNION {[1..n -> SaltBytes] : n \in 1..SaltLen}

RECURSIVE mix(_, _)
mix(h, bytes) ==
    IF bytes = <<>> THEN h ELSE mix((h * 33 + bytes[1] + 1) % 256, Tail(bytes))

\* pbkdf2::<Hmac<Sha256>>(password, salt, PBKDF2_ITERATIONS, &mut derived_key)
pbkdf2(password, salt) == mix((mix(0, password) * 7 + 128) % 256, salt)

\* hex::encode of one byte
hex_encode(b) == <<b \div 16, b % 16>>

\* secret_key.public_key().to_encoded_point(true): the key-th multiple of the
\* generator
public_key(key) == (key * 7) % CURVE_ORDER

\* general_purpose::STANDARD.encode
RECURSIVE b64_encode(_)
b64_encode(b) ==
    CASE Len(b) = 0 -> <<>>
      [] Len(b) = 1 -> <<b[1] \div 4, (b[1] % 4) * 16, 64, 64>>
      [] Len(b) = 2 -> <<b[1] \div 4, (b[1] % 4) * 16 + b[2] \div 16,
                         (b[2] % 16) * 4, 64>>
      [] OTHER -> <<b[1] \div 4, (b[1] % 4) * 16 + b[2] \div 16,
                    (b[2] % 16) * 4 + b[3] \div 64, b[3] % 64>>
                  \o b64_encode(SubSeq(b, 4, Len(b)))

\* general_purpose::STANDARD.decode: None for a text that is not canonical
\* base64 (length, padding, trailing bits)
RECURSIVE b64_decode(_)
b64_decode(c) ==
    IF Len(c) = 0 THEN Some(<<>>)
    ELSE IF Len(c) < 4 \/ c[1] = 64 \/ c[2] = 64 THEN None
    ELSE IF c[3] = 64 THEN
        IF c[4] = 64 /\ Len(c) = 4 /\ c[2] % 16 = 0
        THEN Some(<<c[1] * 4 + c[2] \div 16>>)
        ELSE None
    ELSE IF c[4] = 64 THEN
        IF Len(c) = 4 /\ c[3] % 4 = 0
        THEN Some(<<c[1] * 4 + c[2] \div 16, (c[2] % 16) * 16 + c[3] \div 4>>)
        ELSE None
    ELSE LET rest == b64_decode(SubSeq(c, 5, Len(c)))
         IN  IF rest = None THEN None
             ELSE Some(<<c[1] * 4 + c[2] \div 16, (c[2] % 16) * 16 + c[3] \div 4,
                         (c[3] % 4) * 64 + c[4]>> \o Unwrap(rest))

\* Variant of salt_bytes: the supplied salt is ignored
salt_bytes_random(salt, rng) == rng

\* let salt_bytes = match salt { Some(s) => s.to_vec(), None => random }
salt_bytes(salt, rng) == IF IsSome(salt) THEN Unwrap(salt) ELSE rng

\* Variant of key_accepted: every derived value is accepted
key_accepted_always(password, salt, rng) == TRUE

\* key_bigint < curve_order && !key_bigint.is_zero()
key_accepted(password, salt, rng) ==
    LET derived_key == pbkdf2(password, salt_bytes(salt, rng))
    IN  derived_key < CURVE_ORDER /\ derived_key /= 0

\* generate_p256_keypair_from_password, rng being the salt drawn in the
\* iteration of the loop that returns: Some(keypair) for Ok, None for Err
generate_p256_keypair_from_password(password, salt, rng) ==
    LET derived_key == pbkdf2(password, salt_bytes(salt, rng))
    IN  IF key_accepted(password, salt, rng)
        THEN Some([private_key |-> hex_encode(derived_key),
                   public_key |-> hex_encode(public_key(derived_key)),
                   client_secret |-> b64_encode(salt_bytes(salt, rng))])
        ELSE None

\* recreate_keypair_from_client_secret
recreate_keypair_from_client_secret(password, client_secret, rng) ==
    LET decoded == b64_decode(client_secret)
    IN  IF decoded = None THEN None
        ELSE generate_p256_keypair_from_password(password, Some(Unwrap(decoded)), rng)

\* Task 1 derives twice from a password and a salt; task 2 generates a
\* keypair and recreates it from its client secret
InitKeys ==
    /\ task_pc = [t \in Tasks |-> "idle"]
    /\ task_local = [t \in Tasks |-> [password |-> <<>>, salt |-> None,
                                       first |-> None, second |-> None]]
    /\ tokens = None /\ file = FileAbsent
    /\ NoClient /\ NoLimiter /\ NoSessionManager /\ NoExecutor /\ NoPeer

\* A call of generate_p256_keypair_from_password by task t: without a salt
\* the loop ends with a drawn salt whose key is accepted
generate_call(t, password, salt, rng) ==
    /\ task_pc[t] = "idle"
    /\ IsSome(salt) \/ key_accepted(password, salt, rng)
    /\ TaskStep(t, "generated",
                [password |-> password, salt |-> salt,
                 first |-> generate_p256_keypair_from_password(password, salt, rng),
                 second |-> None])
    /\ UNCHANGED <<tokens, file, client_vars, limiter_vars, session, lock, workers, session_file, bucket,
                   peer_last_used_endpoint>>

\* test_deterministic_generation: the first derivation from (password, salt)
derive_first == \E p \in Passwords, s \in Salts, rng \in RngSalts :
    generate_call(1, p, Some(s), rng)

\* test_deterministic_generation: the second derivation from the same pair
derive_second ==
    /\ task_pc[1] = "generated"
    /\ \E rng \in RngSalts :
        LET l == task_local[1]
        IN  TaskStep(1, "again",
                [l EXCEPT !.second =
                    generate_p256_keypair_from_password(l.password, l.salt, rng)])
    /\ UNCHANGED <<tokens, file, client_vars, limiter_vars, session, lock, workers, session_file, bucket,
                   peer_last_used_endpoint>>

\* test_client_secret_roundtrip: a keypair is generated, with or without a salt
roundtrip_generate == \E p \in Passwords, salt \in Opt(Salts), rng \in RngSalts :
    generate_call(2, p, salt, rng)

\* test_client_secret_roundtrip: the keypair that was returned is recreated
\* from the password and its client secret
roundtrip_recreate ==
    /\ task_pc[2] = "generated"
    /\ IsSome(task_local[2].first)
    /\ \E rng \in RngSalts :
        LET l == task_local[2]
        IN  TaskStep(2, "recreated",
                [l EXCEPT !.second =
                    recreate_keypair_from_client_secret(
                        l.password, Unwrap(l.first).client_secret, rng)])
    /\ UNCHANGED <<tokens, file, client_vars, limiter_vars, session, lock, workers, session_file, bucket,
                   peer_last_used_endpoint>>

NextKeys == derive_first \/ derive_second \/ roundtrip_generate \/ roundtrip_recreate

SpecKeys == InitKeys /\ [][NextKeys]_vars

\* C20: two derivations from the same password and salt return the same
\* result (private key, public key and client secret); a keypair generated
\* without a salt is recreated from the password and its client secret: the
\* recreation succeeds and returns an equal keypair.
C20_DeterministicRoundTrip ==
    /\ task_pc[1] = "again" => task_local[1].second = task_local[1].first
    /\ (task_pc[2] = "recreated" /\ task_local[2].salt = None) =>
           /\ IsSome(task_local[2].second)
           /\ task_local[2].second = task_local[2].first

\* Both derivations of task 1 returned the same keypair, and task 2 recreated
\* the keypair it had generated without a salt
C20_Witness ==
    /\ task_pc[1] = "again"
    /\ IsSome(task_local[1].first)
    /\ task_local[1].second = task_local[1].first
    /\ task_pc[2] = "recreated"
    /\ task_local[2].salt = None
    /\ task_local[2].second = task_local[2].first

----------------------------------------------------------------------------
(* What reaches the token file and the session file. The user has a         *)
(* password and a provisioned client secret (task_local[1]); the password   *)
(* hash goes into the login requests, the private key is derived again for  *)
(* every signed Turnkey request. The files hold what serde_json writes: the *)
(* fields of AuthTokens and of AuthSession. Every string is the sequence of *)
(* its bytes, so that what is in a file can be compared with the secrets.   *)

\* utils/password.rs: base64 of PBKDF2 of the password under the fixed SALT
hashpassword(password) == b64_encode(<<pbkdf2(password, <<217, 3>>)>>)

\* Variant of parse_session: the password of the client lands in the session
parse_session_with_password(user_id, client_secret, user_password) ==
    [organization_id |-> <<111>>, user_id |-> user_id, username |-> <<110>>,
     client_secret |-> user_password,
     api_keys |-> {Unwrap(recreate_keypair_from_client_secret(
                      user_password, client_secret, <<>>)).public_key}]

\* TurnkeyClient::parse_session after whoami and get_api_keys, both signed
\* with the key recreated from the password of the client
parse_session(user_id, client_secret, user_password) ==
    [organization_id |-> <<111>>, user_id |-> user_id, username |-> <<110>>,
     client_secret |-> client_secret,
     api_keys |-> {Unwrap(recreate_keypair_from_client_secret(
                      user_password, client_secret, <<>>)).public_key}]

\* The strings that serde_json writes for a file
persisted(f) ==
    IF ~IsSome(f.content) THEN {}
    ELSE LET c == Unwrap(f.content)
         IN  IF f.state = "tokens" THEN {c.access_token, c.refresh_token}
             ELSE {c.tokens.access_token, c.tokens.refresh_token}
                  \cup (IF IsSome(c.cookies) THEN {Unwrap(c.cookies)} ELSE {})
                  \cup (IF IsSome(c.turnkey_session)
                        THEN LET k == Unwrap(c.turnkey_session)
                             IN  {k.organization_id, k.user_id, k.username,
                                  k.client_secret} \cup k.api_keys
                        ELSE {})

\* SessionManager::save_session when auto_save is set
save_session(s, auto_save) ==
    IF auto_save /\ IsSome(s) THEN [state |-> "session", content |-> s]
    ELSE session_file

\* A user whose key was provisioned by generate_p256_keypair_from_password
InitSecrets ==
    /\ \E p \in Passwords, rng \in RngSalts :
           /\ key_accepted(p, None, rng)
           /\ task_local = [t \in Tasks |->
                  [password |-> p, client_secret |-> b64_encode(rng)]]
    /\ task_pc = [t \in Tasks |-> "idle"]
    /\ tokens = None /\ file = FileAbsent
    /\ NoClient /\ NoLimiter /\ NoSessionManager /\ NoExecutor /\ NoPeer

\* AuthClient::login_full and refresh_tokens: the password hash is sent, the
\* tokens of the response are stored
secrets_login ==
    /\ \E access \in {<<97, 49>>, <<97, 50>>}, w \in WriteOutcomes :
           set_tokens(AuthTokens(access, <<114>>, Some(LOGIN_TTL)), w)
    /\ sent' = <<hashpassword(task_local[1].password)>>
    /\ UNCHANGED <<now, last_used_endpoint, otp_fetcher, mailbox, pc, frame, result,
                   task_pc, task_local, limiter_vars, session, lock, workers,
                   session_file, bucket, peer_last_used_endpoint>>

\* A writer of the SessionManager with its trailing save
session_write(c, auto_save) ==
    /\ session' = assign_all(session, assignments(c, session))
    /\ session_file' = save_session(session', auto_save)
    /\ UNCHANGED <<tokens, file, client_vars, task_pc, task_local, limiter_vars, lock,
                   workers, bucket, peer_last_used_endpoint>>

\* create_session with the tokens of the login and the cookies of the response
secrets_create_session ==
    /\ IsSome(tokens)
    /\ \E cookies \in {None, Some(<<99>>)}, auto_save \in BOOLEAN :
           session_write([op |-> "create_session", arg |-> Unwrap(tokens),
                          cookies |-> cookies], auto_save)

\* update_tokens after a refresh, update_cookies
secrets_update ==
    /\ IsSome(tokens)
    /\ \E auto_save \in BOOLEAN :
           \/ session_write([op |-> "update_tokens", arg |-> Unwrap(tokens),
                             cookies |-> None], auto_save)
           \/ session_write([op |-> "update_cookies", arg |-> <<99>>,
                             cookies |-> None], auto_save)

\* setup_turnkey_session(organization_id, user_id, client_secret,
\* user_password): the password stays in the clone of the Turnkey client
secrets_setup_turnkey_session ==
    /\ IsSome(session)
    /\ \E auto_save \in BOOLEAN :
           session_write([op |-> "setup_turnkey_session",
                          arg |-> parse_session(<<117>>, task_local[1].client_secret,
                                                task_local[1].password),
                          cookies |-> None], auto_save)

\* save_session called by the application
secrets_save_session ==
    /\ session_file' = save_session(session, TRUE)
    /\ UNCHANGED <<tokens, file, client_vars, task_pc, task_local, limiter_vars,
                   session, lock, workers, bucket, peer_last_used_endpoint>>

NextSecrets ==
    \/ secrets_login
    \/ secrets_create_session
    \/ secrets_update
    \/ secrets_setup_turnkey_session
    \/ secrets_save_session

SpecSecrets == InitSecrets /\ [][NextSecrets]_vars

\* C21: neither the token file nor the session file contains the plaintext
\* password, the login password hash or the derived private key; of the key
\* derivation material only the client secret is in a file.
C21_NoSecretPersisted ==
    LET user == task_local[1]
        keypair == Unwrap(recreate_keypair_from_client_secret(
                       user.password, user.client_secret, <<>>))
    IN  (persisted(file) \cup persisted(session_file))
            \cap {user.password, hashpassword(user.password), keypair.private_key}
        = {}

\* Both files are written, the session file with the Turnkey session and its
\* client secret, after a login whose request carried the password hash
C21_Witness ==
    /\ file.state = "tokens"
    /\ sent = <<hashpassword(task_local[1].password)>>
    /\ session_file.state = "session"
    /\ IsSome(Unwrap(session_file.content).turnkey_session)
    /\ task_local[1].client_secret \in persisted(session_file)

----------------------------------------------------------------------------
(* OtpFetcher::wait_for_otp(timeout_seconds, check_interval_seconds) on its *)
(* own, with the time its steps take: clock is std::time::Instant::now() in *)
(* seconds, task 1 is the caller, its locals are the arguments, start_time  *)
(* and what the call did (outcome, polls).                                  *)

\* The longest a fetchotp_recent call (connect, search, fetch) takes
MaxFetchTime == 2

InitWaitForOtp ==
    /\ task_pc = [t \in Tasks |-> "idle"]
    /\ task_local = [t \in Tasks |->
           [timeout |-> 0, interval |-> 0, start_time |-> 0, outcome |-> "", polls |-> 0]]
    /\ clock = 0 /\ requests = <<>> /\ released = <<>> /\ bucket = None
    /\ tokens = None /\ file = FileAbsent
    /\ NoClient /\ NoSessionManager /\ NoExecutor /\ NoPeer

\* wait_for_otp is called: let start_time = Instant::now()
wait_for_otp ==
    /\ task_pc[1] = "idle"
    /\ \E timeout \in 1..2, interval \in 1..2 :
           TaskStep(1, "loop", [timeout |-> timeout, interval |-> interval,
                                start_time |-> clock, outcome |-> "", polls |-> 0])
    /\ UNCHANGED <<tokens, file, client_vars, limiter_vars, session, lock, workers,
                   session_file, bucket, peer_last_used_endpoint>>

\* The loop test and one iteration: fetchotp_recent(3)?, then
\* timeout_duration - start_time.elapsed() (Duration subtraction panics when
\* the difference is negative), then std::thread::sleep(check_interval)
wait_for_otp_loop ==
    /\ task_pc[1] = "loop"
    /\ LET l == task_local[1]
       IN  IF clock - l.start_time >= l.timeout
           THEN /\ TaskStep(1, "returned", [l EXCEPT !.outcome = "Ok(None)"])
                /\ UNCHANGED <<mailbox, clock>>
           ELSE \E imap \in {"ok", "fail_connect", "fail_logout"},
                   fetch_time \in 0..MaxFetchTime :
                LET r == fetchotp_recent(mailbox, imap)
                    polled == [l EXCEPT !.polls = l.polls + 1]
                    elapsed == clock + fetch_time - l.start_time
                IN  /\ mailbox' = r.mailbox
                    /\ IF ~r.ok
                       THEN /\ TaskStep(1, "returned", [polled EXCEPT !.outcome = "Err"])
                            /\ clock' = clock + fetch_time
                       ELSE IF IsSome(r.value)
                       THEN /\ TaskStep(1, "returned", [polled EXCEPT !.outcome = "Ok(Some)"])
                            /\ clock' = clock + fetch_time
                       ELSE IF elapsed > l.timeout
                       THEN /\ TaskStep(1, "panicked", [polled EXCEPT !.outcome = "panic"])
                            /\ clock' = clock + fetch_time
                       ELSE /\ TaskStep(1, "loop", polled)
                            /\ clock' = clock + fetch_time + l.interval
    /\ UNCHANGED <<tokens, file, now, last_used_endpoint, otp_fetcher, pc, frame, sent,
                   result, requests, released, session, lock, workers, session_file,
                   bucket, peer_last_used_endpoint>>

NextWaitForOtp == wait_for_otp \/ wait_for_otp_loop \/ deliver_mail

SpecWaitForOtp == InitWaitForOtp /\ [][NextWaitForOtp]_vars

\* C22: a call of wait_for_otp ends by returning: the code when a poll found
\* one, an empty result when the timeout elapsed without a code, an error only
\* when a mailbox operation failed; it never ends otherwise.
C22_WaitForOtpReturns ==
    /\ task_pc[1] /= "panicked"
    /\ task_pc[1] = "returned" =>
           task_local[1].outcome \in {"Ok(Some)", "Ok(None)", "Err"}

----------------------------------------------------------------------------
(* RateLimiter::acquire as a function of the deque and the instant of call  *)

\* C23: at every instant, acquire called on the recorded requests either
\* records the call and returns zero, or, the entries left after pruning
\* being at capacity, records nothing and returns a strictly positive wait,
\* the time until the oldest entry leaves the window; the recorded entries
\* never exceed max_requests.
C23_AcquireZeroIffRecorded ==
    LET kept == prune(requests, clock)
        a == acquire(requests, clock)
    IN  /\ Len(a.requests) <= max_requests
        /\ \/ a.wait_time = 0 /\ a.requests = Append(kept, clock)
           \/ /\ a.wait_time > 0
              /\ a.requests = kept
              /\ Len(kept) >= max_requests
              /\ a.wait_time = Head(kept) + window - clock

----------------------------------------------------------------------------
(* utils/retry.rs: retry_with_config and retry_with_backoff around any      *)
(* operation, with the delays of RetryConfig::calculate_delay. Durations    *)
(* are in milliseconds; exponential_base is counted in halves (1: 0.5,      *)
(* 2: 1.0, 4: 2.0) and the jitter factor in hundredths, so that the f64     *)
(* arithmetic of calculate_delay is exact; `as u64` truncates.              *)

RECURSIVE powi(_, _)
powi(b, k) == IF k = 0 THEN 1 ELSE b * powi(b, k - 1)

\* RetryConfig::calculate_delay(attempt), jitter_factor being what
\* rng.gen_range(0.5..1.5) returns
calculate_delay(config, attempt, jitter_factor) ==
    LET exponential_delay == config.initial_delay * powi(config.exponential_base, attempt)
        halves == powi(2, attempt)
        delay_ms == IF exponential_delay >= config.max_delay * halves
                    THEN config.max_delay * halves ELSE exponential_delay
    IN  (delay_ms * (IF config.jitter THEN jitter_factor ELSE 100)) \div (halves * 100)

\* impl RetryableError for reqwest::Error
is_retryable(o) ==
    IF o.err \in {"timeout", "connect"} THEN TRUE
    ELSE IF o.status /= 0 THEN o.status \in {429, 500, 502, 503, 504}
    ELSE TRUE

\* retry_with_backoff after operation() returned o
retry_with_backoff(t, l, o) ==
    IF ~o.ok /\ ~is_retryable(o)
    THEN TaskStep(t, "idle", [l EXCEPT !.outcome = o])
    ELSE retry_with_config(t, l, o)

InitRetry ==
    /\ task_pc = [t \in Tasks |-> "idle"]
    /\ task_local = [t \in Tasks |-> [op |-> ""]]
    /\ tokens = None /\ file = FileAbsent
    /\ NoClient /\ NoLimiter /\ NoSessionManager /\ NoExecutor /\ NoPeer

\* A retry function is called with a RetryConfig (max_retries being the
\* max_retries of the model) and invokes the operation for attempt 0
retry_call ==
    /\ task_pc[1] = "idle"
    /\ \E op \in {"retry_with_config", "retry_with_backoff"},
          config \in [initial_delay : {1, 3}, max_delay : {2, 4},
                      exponential_base : {1, 2, 4}, jitter : BOOLEAN] :
           TaskStep(1, "operation",
                    [op |-> op, config |-> config, attempt |-> 0, invocations |-> 1,
                     sleeps |-> 0, delay |-> 0,
                     outcome |-> [ok |-> FALSE, status |-> 0, err |-> ""]])
    /\ UNCHANGED <<tokens, file, client_vars, limiter_vars, session, lock, workers,
                   session_file, bucket, peer_last_used_endpoint>>

\* operation().await returns: a value, or an error with or without a status
operation_returns ==
    /\ task_pc[1] = "operation"
    /\ \E o \in [ok : {TRUE}, status : {200}, err : {""}]
                 \cup [ok : {FALSE}, status : {0}, err : {"timeout"}]
                 \cup [ok : {FALSE}, status : {404, 500}, err : {"status"}] :
           IF task_local[1].op = "retry_with_backoff"
           THEN retry_with_backoff(1, task_local[1], o)
           ELSE retry_with_config(1, task_local[1], o)
    /\ UNCHANGED <<tokens, file, client_vars, limiter_vars, session, lock, workers,
                   session_file, bucket, peer_last_used_endpoint>>

\* sleep(delay).await of the failed attempt has completed: the loop goes on
\* to the next attempt and invokes the operation
backoff_elapsed ==
    /\ task_pc[1] = "backoff"
    /\ \E jitter_factor \in {50, 100, 149} :
           LET l == task_local[1]
           IN  TaskStep(1, "operation",
                   [l EXCEPT !.invocations = @ + 1,
                             !.delay = calculate_delay(l.config, l.attempt - 1,
                                                       jitter_factor)])
    /\ UNCHANGED <<tokens, file, client_vars, limiter_vars, session, lock, workers,
                   session_file, bucket, peer_last_used_endpoint>>

NextRetry == retry_call \/ operation_returns \/ backoff_elapsed

\* Every invocation of the operation returns and every sleep ends
SpecRetry ==
    /\ InitRetry /\ [][NextRetry]_vars
    /\ WF_vars(operation_returns) /\ WF_vars(backoff_elapsed)

\* C24: a retry call invokes the operation at most max_retries + 1 times;
\* it returns at the first success; it returns an error of the operation
\* that can be retried only after max_retries + 1 invocations, and always
\* the result of the last invocation; every failed attempt but the last is
\* followed by one sleep, which ends before the next invocation, and no
\* sleep follows the last attempt; every call returns.
C24_RetryTerminates ==
    /\ [](task_local[1].op /= "" =>
            LET l == task_local[1]
            IN  /\ l.invocations <= max_retries + 1
                /\ l.attempt = l.sleeps
                /\ task_pc[1] = "operation" => l.invocations = l.sleeps + 1
                /\ task_pc[1] = "backoff" =>
                       /\ l.invocations = l.sleeps
                       /\ l.invocations <= max_retries
                       /\ ~l.outcome.ok
                /\ task_pc[1] = "idle" =>
                       /\ l.invocations = l.sleeps + 1
                       /\ (/\ ~l.outcome.ok
                           /\ l.op = "retry_with_backoff" => is_retryable(l.outcome))
                          => l.invocations = max_retries + 1)
    /\ (task_pc[1] /= "idle") ~> (task_pc[1] = "idle")

\* A call has returned the error of its last invocation after
\* max_retries + 1 invocations and max_retries sleeps
C24_Witness ==
    /\ task_pc[1] = "idle"
    /\ task_local[1].op = "retry_with_backoff"
    /\ task_local[1].invocations = max_retries + 1
    /\ task_local[1].sleeps = max_retries
    /\ task_local[1].outcome.status = 500

\* C25: the delay of every backoff sleep is at most max_delay; without
\* jitter the delay of attempt k is min(initial_delay * base^k, max_delay)
\* and delay(k) <= delay(k + 1).
C25_DelayBounded ==
    task_local[1].op /= "" =>
        LET l == task_local[1]
            c == l.config
        IN  /\ l.delay <= c.max_delay
            /\ \A k \in 0..max_retries :
                   \A jitter_factor \in {50, 100, 149} :
                       calculate_delay(c, k, jitter_factor) <= c.max_delay
            /\ ~c.jitter =>
                   \A k \in 0..(max_retries - 1) :
                       calculate_delay(c, k, 100) <= calculate_delay(c, k + 1, 100)

----------------------------------------------------------------------------
(* The loop of generate_p256_keypair_from_password, iteration by iteration. *)
(* The locals of a caller are the arguments, the salt of the last iteration,  *)
(* the numbers of random salts drawn and of derivations made, and what the  *)
(* call returned.                                                           *)

\* Iterations of the loop that the model follows
MaxDraws == 3

InitKeyLoop ==
    /\ task_pc = [t \in Tasks |-> "idle"]
    /\ task_local = [t \in Tasks |->
           [password |-> <<>>, salt |-> None, salt_bytes |-> <<>>, draws |-> 0,
            derivations |-> 0, returned |-> None]]
    /\ tokens = None /\ file = FileAbsent
    /\ NoClient /\ NoLimiter /\ NoSessionManager /\ NoExecutor /\ NoPeer

\* generate_p256_keypair_from_password(password, salt) is called
generate_enter(t) ==
    /\ task_pc[t] = "idle"
    /\ \E p \in Passwords, salt \in Opt(Salts) :
           TaskStep(t, "loop", [password |-> p, salt |-> salt, salt_bytes |-> <<>>,
                                draws |-> 0, derivations |-> 0, returned |-> None])
    /\ UNCHANGED <<tokens, file, client_vars, limiter_vars, session, lock, workers,
                   session_file, bucket, peer_last_used_endpoint>>

\* One iteration of the loop: the salt is taken or drawn, the key derived and
\* tested; the call returns the keypair, or the error for a supplied salt, or
\* goes round again
generate_iteration(t) ==
    /\ task_pc[t] = "loop"
    /\ task_local[t].draws < MaxDraws
    /\ \E rng \in RngSalts :
           LET l == task_local[t]
               out == generate_p256_keypair_from_password(l.password, l.salt, rng)
               done == [l EXCEPT !.salt_bytes = salt_bytes(l.salt, rng),
                                 !.draws = IF IsSome(l.salt) THEN @ ELSE @ + 1,
                                 !.derivations = @ + 1,
                                 !.returned = out]
           IN  IF IsSome(out) THEN TaskStep(t, "Ok", done)
               ELSE IF IsSome(l.salt) THEN TaskStep(t, "Err", done)
               ELSE TaskStep(t, "loop", done)
    /\ UNCHANGED <<tokens, file, client_vars, limiter_vars, session, lock, workers,
                   session_file, bucket, peer_last_used_endpoint>>

NextKeyLoop == \E t \in {1, 2} : generate_enter(t) \/ generate_iteration(t)

SpecKeyLoop == InitKeyLoop /\ [][NextKeyLoop]_vars

----------------------------------------------------------------------------
(* The \\Seen flag of the mailbox over a sequence of logins *)

\* C27: a step in which a fetch returns a code takes it from a message that
\* was unseen and is seen afterwards; a seen message stays seen and in place,
\* so no later fetch returns its code; a message becomes seen only in a step
\* of a fetch, which examined it as the latest unseen message.
C27_SeenNeverReused ==
    [][/\ Len(mailbox') >= Len(mailbox)
       /\ \A i \in 1..Len(mailbox) :
              /\ mailbox'[i].code = mailbox[i].code
              /\ mailbox[i].seen => mailbox'[i].seen
              /\ mailbox'[i].seen /= mailbox[i].seen =>
                     /\ pc = "wait_for_otp"
                     /\ i = latest_id(mailbox)
       /\ (pc = "wait_for_otp" /\ frame'.wait_outcome = "found") =>
              \E i \in 1..Len(mailbox) :
                  /\ ~mailbox[i].seen
                  /\ mailbox'[i].seen
                  /\ frame'.otp = Some(mailbox[i].code)]_vars

\* With tokens stored, a later login has polled the mailbox, whose message
\* with a code is seen, and no code was returned to it
C27_Witness ==
    /\ IsSome(tokens)
    /\ pc = "wait_for_otp"
    /\ frame.elapsed > 0
    /\ Len(mailbox) = 1
    /\ mailbox[1].seen /\ mailbox[1].code /= ""

----------------------------------------------------------------------------
(* The token store across a login that fails *)

\* C28: no step of a login that goes on changes the stored tokens, and the
\* step in which a login returns an error leaves get_tokens as it was: a
\* failed login does not change the authentication state.
C28_FailedLoginKeepsTokens ==
    [][(pc /= "idle" /\ frame.name = "login_full"
        /\ (pc' /= "idle" \/ ~result'.ok))
       => get_tokens' = get_tokens]_vars

----------------------------------------------------------------------------
(* TokenManager::from_env *)

\* Task 0 is the task from_env hands to tokio::spawn; its local is the
\* AuthTokens value moved into it.  The other tasks hold the manager that
\* from_env returned and read it; the local of a reader is its last call and
\* what the call returned.
Spawned == 0

NotRead == [op |-> "", value |-> None]

\* from_env has returned Ok(Some(manager)): both variables are set, the
\* manager is Self::new(None) and the task that stores the tokens is spawned
InitFromEnv ==
    /\ file = FileAbsent
    /\ tokens = None
    /\ \E access \in AccessValues, refresh \in RefreshValues :
           task_local = [t \in {Spawned} \cup Tasks |->
                            IF t = Spawned
                            THEN [tokens |-> AuthTokens(access, refresh, None)]
                            ELSE NotRead]
    /\ task_pc = [t \in {Spawned} \cup Tasks |->
                     IF t = Spawned THEN "spawned" ELSE "idle"]
    /\ NoClient /\ NoLimiter /\ NoSessionManager /\ NoExecutor /\ NoPeer

\* The spawned task is polled: tokens_arc.write().await; *guard = Some(tokens)
from_env_spawned ==
    /\ task_pc[Spawned] = "spawned"
    /\ tokens' = Some(task_local[Spawned].tokens)
    /\ task_pc' = [task_pc EXCEPT ![Spawned] = "done"]
    /\ UNCHANGED <<file, task_local, client_vars, limiter_vars, session, lock,
                   workers, session_file, bucket, peer_last_used_endpoint>>

\* get_access_token and get_refresh_token: the field of the stored tokens,
\* or Err(TokenNotFound)
TokenField(field) ==
    IF IsSome(tokens)
    THEN [ok |-> TRUE, value |-> Unwrap(tokens)[field]]
    ELSE [ok |-> FALSE, value |-> "TokenNotFound"]

\* A holder of the manager calls one of the three getters
token_read(t) ==
    /\ task_pc[t] = "idle"
    /\ \E op \in {"get_tokens", "get_access_token", "get_refresh_token"} :
           task_local' = [task_local EXCEPT ![t] =
               [op |-> op,
                value |-> CASE op = "get_tokens" -> get_tokens
                            [] op = "get_access_token" -> TokenField("access_token")
                            [] op = "get_refresh_token" -> TokenField("refresh_token")]]
    /\ UNCHANGED <<tokens, file, task_pc, client_vars, limiter_vars, session,
                   lock, workers, session_file, bucket, peer_last_used_endpoint>>

NextFromEnv ==
    \/ from_env_spawned
    \/ \E t \in Tasks : token_read(t)

SpecFromEnv == InitFromEnv /\ [][NextFromEnv]_vars

\* C29: every getter called on the manager that from_env returned yields
\* the tokens of the environment, with no expiry, whenever the call is made.
C29_FromEnvTokensVisible ==
    \A t \in Tasks :
        LET env == task_local[Spawned].tokens
            read == task_local[t]
        IN  /\ read.op = "get_tokens" => read.value = Some(env)
            /\ read.op = "get_access_token" =>
                   read.value = [ok |-> TRUE, value |-> env.access_token]
            /\ read.op = "get_refresh_token" =>
                   read.value = [ok |-> TRUE, value |-> env.refresh_token]

----------------------------------------------------------------------------
(* BucketRateLimiter *)

\* BucketRateLimiter::new(max_tokens, refill_rate); the rate is in tokens
\* per tick and positive
max_tokens == 2
refill_rate == 1

\* The amounts callers ask for
Amounts == 1..(max_tokens + 1)

\* The bucket holds its level (tokens) and, in place of the instant
\* last_refill, the time that has passed since (elapsed).  The refill reads
\* elapsed only through (elapsed * refill_rate).min(max_tokens - tokens), so
\* elapsed stops counting once elapsed * refill_rate reaches max_tokens.
MaxElapsed == max_tokens

\* try_consume: refill for the time passed, set last_refill to now, then
\* take the tokens (None) or return the time the deficit takes to refill
try_consume(b, tokens_needed) ==
    LET tokens_to_add == Min(b.elapsed * refill_rate, max_tokens - b.tokens)
        level == Min(b.tokens + tokens_to_add, max_tokens)
    IN  IF level >= tokens_needed
        THEN [bucket |-> [tokens |-> level - tokens_needed, elapsed |-> 0],
              wait |-> None]
        ELSE [bucket |-> [tokens |-> level, elapsed |-> 0],
              wait |-> Some(((tokens_needed - level) + refill_rate - 1)
                            \div refill_rate)]

\* The local of a task is the amount of its last call (tokens_needed), what
\* its last try_consume returned (wait) and the rest of its sleep (sleep)
InitBucket ==
    /\ bucket = [tokens |-> max_tokens, elapsed |-> 0]
    /\ task_pc = [t \in Tasks |-> "idle"]
    /\ task_local = [t \in Tasks |->
                        [tokens_needed |-> 0, wait |-> None, sleep |-> 0]]
    /\ clock = 0 /\ requests = <<>> /\ released = <<>>
    /\ tokens = None /\ file = FileAbsent
    /\ NoClient /\ NoSessionManager /\ NoExecutor /\ NoPeer

\* A task calls try_consume
try_consume_call(t) ==
    /\ task_pc[t] = "idle"
    /\ \E tokens_needed \in Amounts :
           LET r == try_consume(bucket, tokens_needed)
           IN  /\ bucket' = r.bucket
               /\ TaskStep(t, "idle", [tokens_needed |-> tokens_needed,
                                       wait |-> r.wait, sleep |-> 0])
    /\ UNCHANGED <<tokens, file, client_vars, limiter_vars, session, lock,
                   workers, session_file, peer_last_used_endpoint>>

\* A task calls consume
consume(t) ==
    /\ task_pc[t] = "idle"
    /\ \E tokens_needed \in Amounts :
           TaskStep(t, "consume", [tokens_needed |-> tokens_needed,
                                   wait |-> None, sleep |-> 0])
    /\ UNCHANGED <<tokens, file, client_vars, limiter_vars, session, lock,
                   workers, session_file, bucket, peer_last_used_endpoint>>

\* consume, one turn of its loop, taken when the sleep of the turn before
\* is over: while let Some(wait_time) = try_consume(n) { sleep(wait_time) }
consume_loop(t) ==
    /\ task_pc[t] = "consume"
    /\ task_local[t].sleep = 0
    /\ LET r == try_consume(bucket, task_local[t].tokens_needed)
       IN  /\ bucket' = r.bucket
           /\ IF IsSome(r.wait)
              THEN TaskStep(t, "consume", [task_local[t] EXCEPT
                                !.wait = r.wait, !.sleep = Unwrap(r.wait)])
              ELSE TaskStep(t, "idle", [task_local[t] EXCEPT !.wait = None])
    /\ UNCHANGED <<tokens, file, client_vars, limiter_vars, session, lock,
                   workers, session_file, peer_last_used_endpoint>>

\* One tick passes: for the bucket and for every sleeping task
bucket_tick ==
    /\ bucket' = [bucket EXCEPT !.elapsed = Min(bucket.elapsed + 1, MaxElapsed)]
    /\ task_local' = [t \in Tasks |->
           [task_local[t] EXCEPT !.sleep = IF @ > 0 THEN @ - 1 ELSE 0]]
    /\ UNCHANGED <<tokens, file, task_pc, client_vars, limiter_vars, session,
                   lock, workers, session_file, peer_last_used_endpoint>>

NextBucket ==
    \/ bucket_tick
    \/ \E t \in Tasks : try_consume_call(t) \/ consume(t) \/ consume_loop(t)

\* Time advances and a task whose sleep is over goes on
SpecBucket ==
    /\ InitBucket /\ [][NextBucket]_vars
    /\ WF_vars(bucket_tick)
    /\ \A t \in Tasks : WF_vars(consume_loop(t))

\* C30: the level of the bucket stays within [0, max_tokens]; a try_consume
\* that succeeds lowers the refilled level by exactly the amount asked for
\* and one that fails leaves the refilled level; and every consume call
\* eventually returns, whatever amount it asks for.
C30_BucketBoundsAndConsumeReturns ==
    /\ [](bucket.tokens >= 0 /\ bucket.tokens <= max_tokens)
    /\ [][\A t \in Tasks :
            (task_local'[t] /= task_local[t] /\ bucket'.elapsed = 0
             /\ (task_pc[t] = "consume" \/ task_pc'[t] = "idle")) =>
                LET level == Min(bucket.tokens + bucket.elapsed * refill_rate,
                                 max_tokens)
                IN  bucket'.tokens =
                        IF IsSome(task_local'[t].wait)
                        THEN level
                        ELSE level - task_local'[t].tokens_needed]_vars
    /\ \A t \in Tasks : (task_pc[t] = "consume") ~> (task_pc[t] = "idle")

====
